---------------------------- MODULE Spec2Model ----------------------------
(***************************************************************************)
(* Container auto-update task of dockhand                                  *)
(* (src/src/lib/server/scheduler/tasks/container-update.ts).               *)
(*                                                                         *)
(* One process per invocation of runContainerUpdate.  Every await of the   *)
(* function is a step; the collaborators (runtime client, scanner,         *)
(* compose subsystem, ledger, notification sink) answer                    *)
(* nondeterministically, and a throwing collaborator sends the process to  *)
(* the catch block that encloses the call in the source.                   *)
(*                                                                         *)
(*   Spec       one run; runtime, scanner and compose calls may fail,      *)
(*              the ledger / settings store / notification sink answer.    *)
(*   SpecFaults one run; the ledger, the bookkeeping and the notification  *)
(*              sink may fail as well.                                     *)
(*   SpecConc   two runs on the same container, same faults as Spec.       *)
(*   SpecSeq    two successive runs, up to the call of recreateContainer.  *)
(*   SpecAlias  one turn of recreateContainer's loop over the networks.    *)
(*   SpecStack  one call of updateStackContainer.                          *)
(*   SpecStore  one run with scanning; the scan-history store may fail.    *)
(***************************************************************************)
EXTENDS Naturals, FiniteSets, Sequences

\* ------------------------------------------------------------------ bounds

\* Largest number of scanners that answer one scanImage call.
MaxScanners == 2

\* Largest number of secondary networks a container is attached to.
MaxNetworks == 2

\* Largest number of entries of a network's Aliases or DNSNames list.
MaxAliases == 2

\* ------------------------------------------------------------------ values

Runs == {"r1", "r2"}

\* Image identities: the one the container runs at first, the one the
\* registry serves, and the absent value (undefined / null in the source).
OldImage == "sha:aaa"
NewImage == "sha:bbb"
NoImage == "none"
ImageIds == {OldImage, NewImage}

\* imageNameFromConfig, by the tests the code applies to it.
RefKinds == {"absent", "system", "system_digest", "digest", "tag"}

\* isSystemContainer(imageNameFromConfig) is non-null.
isSystemContainer(ref) == ref \in {"system", "system_digest"}

\* isDigestBasedImage(imageNameFromConfig).
isDigestBasedImage(ref) == ref \in {"digest", "system_digest"}

\* Networks of a container: the primary one (hostConfig.NetworkMode) and the
\* secondary ones.
PrimaryNetwork == 0
Networks == 0..MaxNetworks

\* Container settings that recreation has to preserve (port bindings,
\* environment, primary-network aliases), as opaque values; NoOptions for a
\* container that does not exist.
Options == {"optsA", "optsB"}
NoOptions == "none"

Criteria == {"never", "any", "critical_high", "critical", "more_than_current"}

Terminal == {"success", "failed", "skipped"}

\* Calls that change images, tags or containers.
TagCalls == {"pullImage", "pullStackService", "tagImage", "removeTempImage"}
RecreateCalls == {"stopContainer", "removeContainer", "createContainer"}
MutatingCalls == TagCalls \cup RecreateCalls \cup {"updateStackService"}

\* ------------------------------------------------------------------ state

VARIABLES
    runs,                 \* the invocations of runContainerUpdate in this behaviour
    container,            \* the target container as the runtime holds it
    tag,                  \* image the container's repository:tag pair resolves to
    tempTag,              \* image the temporary tag resolves to, or NoImage
    settings,             \* scanner enabled (scanner # 'none') and the criteria configured
    scanStore,            \* scan-history store: image -> {} or {combined saved summary}
    pc,                   \* position of each run
    path,                 \* "none" | "compose" | "standalone"
    promise,              \* "pending" | "resolved" | "rejected"
    execStatus,           \* ExecutionRecord status: "none" before it is created
    termWrites,           \* number of terminal status writes that were applied
    writeSite,            \* position of the terminal write applied last: its reason / error text
    notifs,               \* notifications sent, by kind
    lastUpdated,          \* updateAutoUpdateLastUpdated was applied
    imageRef,             \* imageNameFromConfig (its kind), "unread" before inspect
    currentImageId,       \* inspectData.Image as the run read it
    newImageId,           \* image identity resolved after the pull
    isStackContainer,
    composeFile,          \* composeResult.success: "unknown" | "resolved" | "unresolved"
    shouldScan,
    vulnerabilityCriteria,
    registryCheck,        \* result of checkImageUpdateAvailable (returned = it answered)
    wasRunning,           \* recreateContainer: inspectData.State.Running
    inspectData,          \* recreateContainer: {} or {the inspection snapshot}
    recreateResult,       \* "none" | "true" | "false": what recreateContainer returned
    createCount,          \* createContainer calls made by recreateContainer
    netTodo,              \* additionalNetworks not yet attempted
    netFailed,            \* additionalNetworks whose connect call threw
    scanSummary,          \* gate: {} or {combined summary of the new image}
    currentScanSummary,   \* gate: {} or {summary of the current image}
    scanOutcome,          \* gate verdict: "none" | "allowed" | "blocked"
    scanResults,          \* gate: {} or {number of results scanImage returned for the new image}
    currentScanResults,   \* gate: {} or {currentScanResults.length > 0} of the on-demand scan
    gateApproved,         \* images for which the gate returned blocked=false
    calls,                \* collaborator calls the run has made
    threw,                \* collaborator calls that threw
    preRunImage,          \* image the container ran when the run began
    tagSteps,             \* tag-mutating calls of the run that took effect
    lastTagger,           \* run whose tag-mutating call took effect last
    executionLog,         \* kinds of the lines log() appended at lines 692-743
    aliasCall,            \* one turn of the loop over the networks (lines 841-876)
    stackCall             \* one call of updateStackContainer

runtimeVars == <<container, tag, tempTag, scanStore, settings>>
ledgerVars == <<execStatus, termWrites, writeSite, notifs, lastUpdated>>
localVars == <<imageRef, currentImageId, newImageId, isStackContainer,
               shouldScan, vulnerabilityCriteria, registryCheck, wasRunning>>
gateVars == <<scanSummary, currentScanSummary, scanOutcome, gateApproved, scanResults,
              currentScanResults>>
tagGhost == <<tagSteps, lastTagger>>
helperVars == <<aliasCall, stackCall>>
recreateVars == <<inspectData, recreateResult, createCount, netTodo, netFailed>>
vars == <<runs, composeFile, executionLog, helperVars, runtimeVars, ledgerVars, localVars, gateVars, tagGhost, recreateVars,
          pc, path, promise, calls, threw, preRunImage>>

\* ------------------------------------------------------------------ helpers

Goto(r, p) == pc' = [pc EXCEPT ![r] = p]

Called(r, names) == calls' = [calls EXCEPT ![r] = @ \cup names]

\* A tag-mutating call by run r took effect.
TagStep(r) ==
    /\ tagSteps' = [tagSteps EXCEPT ![r] = @ + 1]
    /\ lastTagger' = r

\* updateScheduleExecution(execution.id, {status: s, ...}) as it is applied.
WriteStatus(r, s) ==
    /\ execStatus' = [execStatus EXCEPT ![r] = s]
    /\ termWrites' = [termWrites EXCEPT ![r] = @ + 1]
    /\ writeSite' = [writeSite EXCEPT ![r] = pc[r]]

\* log(message): a line of the given kind is appended to the execution log.
Log(r, lines) == executionLog' = [executionLog EXCEPT ![r] = @ \cup lines]

\* sendEventNotification(kind, ...) as it is delivered.
Notify(r, kind) == notifs' = [notifs EXCEPT ![r][kind] = @ + 1]

\* The function returns: the promise resolves.
Return(r) ==
    /\ pc' = [pc EXCEPT ![r] = "done"]
    /\ promise' = [promise EXCEPT ![r] = "resolved"]

\* Positions of the gate (scanAndCheckBlock), shared by both paths.
GatePcs == {"g_scan", "g_lookup", "g_scancur"}

\* The catch block that receives an exception thrown at the position of r:
\* the innermost try of runContainerUpdate that encloses it.
Handler(r) ==
    LET p == pc[r] IN
    CASE p \in {"start", "catch", "n_catch"} -> "reject"
      [] p \in GatePcs /\ path[r] = "standalone" -> "sa_scanerr"
      [] p \in {"sa_rmblocked", "w_sa_blocked", "n_sa_blocked"} -> "sa_scanerr"
      [] p \in {"sa_pull", "sa_resolve", "sa_restore", "sa_temptag",
                "sa_scanerr", "w_sa_scanfail", "sa_promote"} -> "sa_pullerr"
      [] p = "ns_pull" -> "ns_pullerr"
      [] p \in GatePcs /\ path[r] = "compose" -> "co_scanerr"
      [] p \in {"co_restore", "w_co_blocked", "n_co_blocked"} -> "co_scanerr"
      [] p \in {"co_pull", "co_resolve", "co_scanerr", "w_co_scanfail",
                "co_up", "w_co_success", "n_co_success"} -> "co_err"
      [] OTHER -> "catch"

\* Collaborator call `name` throws at the position of r.
Raise(r, name) ==
    /\ pc' = [pc EXCEPT ![r] = Handler(r)]
    /\ threw' = [threw EXCEPT ![r] = @ \cup {name}]

\* First position of the standalone flow (line 616).
StandaloneEntry(scan, ref) ==
    IF scan /\ ~isDigestBasedImage(ref) THEN "sa_pull" ELSE "ns_pull"

\* ------------------------------------------------------------------ Init

\* Network attachments a container may have: the primary network and the
\* first n secondary ones.
Attachments == {0..n : n \in 0..MaxNetworks}

\* The containers a run may find.  Settings and networks vary for the
\* containers that can reach recreation (mutable tag reference).
Containers ==
    [exists : {TRUE}, image : {OldImage}, imageRef : {"tag"},
     imageIdKnown : BOOLEAN, project : BOOLEAN, service : BOOLEAN,
     running : BOOLEAN, options : Options, networks : Attachments]
    \cup
    [exists : {TRUE}, image : {OldImage}, imageRef : RefKinds \ {"tag"},
     imageIdKnown : BOOLEAN, project : BOOLEAN, service : BOOLEAN,
     running : BOOLEAN, options : {"optsA"}, networks : {{PrimaryNetwork}}]
    \cup
    [exists : {FALSE}, image : {OldImage}, imageRef : {"tag"},
     imageIdKnown : {TRUE}, project : {FALSE}, service : {FALSE},
     running : {FALSE}, options : {NoOptions}, networks : {{}}]

\* Answers of checkImageUpdateAvailable; NoRegistryResult before it answers.
RegistryResults ==
    [returned : {TRUE}, isLocalImage : BOOLEAN, error : BOOLEAN, hasUpdate : BOOLEAN]

NoRegistryResult ==
    [returned |-> FALSE, isLocalImage |-> FALSE, error |-> FALSE, hasUpdate |-> FALSE]

NoNotifs == [blocked |-> 0, success |-> 0, failed |-> 0]

\* No turn of the loop over the networks (lines 841-876) is under way.
NoAliasCall ==
    [phase |-> "idle", netName |-> "bridge", NetworkMode |-> "",
     Aliases |-> <<>>, DNSNames |-> <<>>,
     composeProject |-> FALSE, composeService |-> FALSE,
     additionalNetworks |-> <<>>]

\* No call of updateStackContainer is under way.
NoStackCall ==
    [phase |-> "idle", stackName |-> "none", serviceName |-> "none",
     envId |-> "undefined", composeConfigPath |-> "undefined",
     composeResult |-> {}, applied |-> {}, result |-> {}, threw |-> {},
     returned |-> {}]

InitRun ==
    /\ tag = OldImage
    /\ tempTag = NoImage
    /\ scanStore = [i \in ImageIds \cup {NoImage} |-> {}]
    /\ pc = [r \in Runs |-> "start"]
    /\ path = [r \in Runs |-> "none"]
    /\ promise = [r \in Runs |-> "pending"]
    /\ execStatus = [r \in Runs |-> "none"]
    /\ termWrites = [r \in Runs |-> 0]
    /\ writeSite = [r \in Runs |-> "none"]
    /\ composeFile = [r \in Runs |-> "unknown"]
    /\ notifs = [r \in Runs |-> NoNotifs]
    /\ lastUpdated = [r \in Runs |-> FALSE]
    /\ imageRef = [r \in Runs |-> "unread"]
    /\ currentImageId = [r \in Runs |-> NoImage]
    /\ newImageId = [r \in Runs |-> NoImage]
    /\ isStackContainer = [r \in Runs |-> FALSE]
    /\ shouldScan = [r \in Runs |-> FALSE]
    /\ vulnerabilityCriteria = [r \in Runs |-> "never"]
    /\ registryCheck = [r \in Runs |-> NoRegistryResult]
    /\ wasRunning = [r \in Runs |-> FALSE]
    /\ inspectData = [r \in Runs |-> {}]
    /\ recreateResult = [r \in Runs |-> "none"]
    /\ createCount = [r \in Runs |-> 0]
    /\ netTodo = [r \in Runs |-> {}]
    /\ netFailed = [r \in Runs |-> {}]
    /\ scanSummary = [r \in Runs |-> {}]
    /\ currentScanSummary = [r \in Runs |-> {}]
    /\ scanOutcome = [r \in Runs |-> "none"]
    /\ scanResults = [r \in Runs |-> {}]
    /\ currentScanResults = [r \in Runs |-> {}]
    /\ gateApproved = [r \in Runs |-> {}]
    /\ calls = [r \in Runs |-> {}]
    /\ threw = [r \in Runs |-> {}]
    /\ preRunImage = [r \in Runs |-> NoImage]
    /\ tagSteps = [r \in Runs |-> 0]
    /\ lastTagger = "nobody"
    /\ executionLog = [r \in Runs |-> {}]

\* getScannerSettings / getAutoUpdateSettingById: what is configured.
Settings == [scanner : BOOLEAN, criteria : Criteria]

Init ==
    /\ runs = {"r1"}
    /\ container \in Containers
    /\ settings \in Settings
    /\ InitRun
    /\ aliasCall = NoAliasCall
    /\ stackCall = NoStackCall

\* ------------------------------------------------------------------ run start

\* Lines 305-325: create the ExecutionRecord (status running), set startedAt.
Start(r) ==
    /\ pc[r] = "start"
    /\ execStatus' = [execStatus EXCEPT ![r] = "running"]
    /\ preRunImage' = [preRunImage EXCEPT ![r] = container.image]
    /\ Goto(r, "find")
    /\ UNCHANGED <<runs, composeFile, executionLog, helperVars, recreateVars, runtimeVars, termWrites, writeSite, notifs, lastUpdated,
                   localVars, gateVars, tagGhost, path, promise, calls, threw>>

\* Lines 328-335: updateAutoUpdateLastChecked, listContainers, find by name.
FindContainer(r) ==
    /\ pc[r] = "find"
    /\ Called(r, {"listContainers"})
    /\ \/ /\ container.exists
          /\ Goto(r, "inspect")
          /\ UNCHANGED threw
       \/ /\ ~container.exists
          /\ Goto(r, "w_notfound")
          /\ UNCHANGED threw
       \/ Raise(r, "listContainers")
    /\ UNCHANGED <<runs, composeFile, executionLog, helperVars, recreateVars, runtimeVars, ledgerVars, localVars, gateVars,
                   tagGhost, path, promise, preRunImage>>

\* Lines 335-344: container not found: terminal failed, return.
WriteNotFound(r) ==
    /\ pc[r] = "w_notfound"
    /\ WriteStatus(r, "failed")
    /\ Return(r)
    /\ UNCHANGED <<runs, composeFile, executionLog, helperVars, recreateVars, runtimeVars, notifs, lastUpdated, localVars,
                   gateVars, tagGhost, path, calls, threw, preRunImage>>

\* Mutant of AfterInspect: the digest-pinned test (line 378) is missing.
AfterInspectNoDigestTest(ref) ==
    CASE ref = "absent" -> "w_noimage"
      [] isSystemContainer(ref) -> "w_system"
      [] OTHER -> "check"

\* Mutant of AfterInspect: the digest test comes before the system test.
AfterInspectDigestFirst(ref) ==
    CASE ref = "absent" -> "w_noimage"
      [] isDigestBasedImage(ref) -> "w_digest"
      [] isSystemContainer(ref) -> "w_system"
      [] OTHER -> "check"

\* Lines 350-387: the early returns on imageNameFromConfig, in source order.
AfterInspect(ref) ==
    CASE ref = "absent" -> "w_noimage"
      [] isSystemContainer(ref) -> "w_system"
      [] isDigestBasedImage(ref) -> "w_digest"
      [] OTHER -> "check"

\* Lines 347-406: inspectContainer, then the tests on the image reference.
InspectContainer(r) ==
    /\ pc[r] = "inspect"
    /\ Called(r, {"inspectContainer"})
    /\ \/ /\ container.exists
          /\ imageRef' = [imageRef EXCEPT ![r] = container.imageRef]
          /\ currentImageId' = [currentImageId EXCEPT ![r] =
                IF container.imageIdKnown THEN container.image ELSE NoImage]
          /\ isStackContainer' = [isStackContainer EXCEPT ![r] =
                container.project /\ container.service]
          /\ Goto(r, AfterInspect(container.imageRef))
          /\ UNCHANGED threw
       \/ /\ Raise(r, "inspectContainer")
          /\ UNCHANGED <<imageRef, currentImageId, isStackContainer>>
    /\ UNCHANGED <<runs, composeFile, executionLog, helperVars, recreateVars, runtimeVars, ledgerVars, newImageId, shouldScan,
                   vulnerabilityCriteria, registryCheck, wasRunning, gateVars,
                   tagGhost, path, promise, preRunImage>>

\* Lines 350-359: no image name in the container config: terminal failed.
WriteNoImageName(r) ==
    /\ pc[r] = "w_noimage"
    /\ WriteStatus(r, "failed")
    /\ Return(r)
    /\ UNCHANGED <<runs, composeFile, executionLog, helperVars, recreateVars, runtimeVars, notifs, lastUpdated, localVars,
                   gateVars, tagGhost, path, calls, threw, preRunImage>>

\* Lines 363-375: Dockhand / Hawser container: terminal skipped.
WriteSystemSkip(r) ==
    /\ pc[r] = "w_system"
    /\ WriteStatus(r, "skipped")
    /\ Return(r)
    /\ UNCHANGED <<runs, composeFile, executionLog, helperVars, recreateVars, runtimeVars, notifs, lastUpdated, localVars,
                   gateVars, tagGhost, path, calls, threw, preRunImage>>

\* Lines 378-387: digest-pinned image: terminal skipped.
WriteDigestSkip(r) ==
    /\ pc[r] = "w_digest"
    /\ WriteStatus(r, "skipped")
    /\ Return(r)
    /\ UNCHANGED <<runs, composeFile, executionLog, helperVars, recreateVars, runtimeVars, notifs, lastUpdated, localVars,
                   gateVars, tagGhost, path, calls, threw, preRunImage>>


\* Mutant of AfterRegistryCheck: the up-to-date test (line 446) is missing.
AfterRegistryCheckNoUpToDateTest(r, rc, scan) ==
    CASE rc.isLocalImage -> "w_local"
      [] rc.error -> "w_regerr"
      [] isStackContainer[r] -> "co_lookup"
      [] OTHER -> StandaloneEntry(scan, imageRef[r])

\* Mutant of AfterRegistryCheck: the error test (line 435) comes after the
\* up-to-date test.
AfterRegistryCheckErrorLast(r, rc, scan) ==
    CASE rc.isLocalImage -> "w_local"
      [] ~rc.hasUpdate -> "w_uptodate"
      [] isStackContainer[r] -> "co_lookup"
      [] rc.error -> "w_regerr"
      [] OTHER -> StandaloneEntry(scan, imageRef[r])

\* Position after a registry answer rc (lines 424-469 and 616).
AfterRegistryCheck(r, rc, scan) ==
    CASE rc.isLocalImage -> "w_local"
      [] rc.error -> "w_regerr"
      [] ~rc.hasUpdate -> "w_uptodate"
      [] isStackContainer[r] -> "co_lookup"
      [] OTHER -> StandaloneEntry(scan, imageRef[r])

\* Lines 409-458: read the scanner and schedule settings, query the registry.
CheckRegistry(r) ==
    /\ pc[r] = "check"
    /\ LET scan == settings.scanner
           crit == settings.criteria
       IN /\ shouldScan' = [shouldScan EXCEPT ![r] = scan]
          /\ vulnerabilityCriteria' = [vulnerabilityCriteria EXCEPT ![r] = crit]
          /\ Called(r, {"checkImageUpdateAvailable"})
          /\ \/ \E rc \in RegistryResults :
                   /\ registryCheck' = [registryCheck EXCEPT ![r] = rc]
                   /\ Goto(r, AfterRegistryCheck(r, rc, scan))
                   /\ path' = [path EXCEPT ![r] =
                         IF AfterRegistryCheck(r, rc, scan) \in {"sa_pull", "ns_pull"}
                         THEN "standalone" ELSE @]
                   /\ UNCHANGED threw
             \/ /\ Raise(r, "checkImageUpdateAvailable")
                /\ UNCHANGED <<registryCheck, path>>
    /\ UNCHANGED <<runs, composeFile, executionLog, helperVars, recreateVars, runtimeVars, ledgerVars, imageRef, currentImageId,
                   newImageId, isStackContainer, wasRunning, gateVars,
                   tagGhost, promise, preRunImage>>

\* Lines 424-433: local image: terminal skipped.
WriteLocalSkip(r) ==
    /\ pc[r] = "w_local"
    /\ WriteStatus(r, "skipped")
    /\ Return(r)
    /\ UNCHANGED <<runs, composeFile, executionLog, helperVars, recreateVars, runtimeVars, notifs, lastUpdated, localVars,
                   gateVars, tagGhost, path, calls, threw, preRunImage>>

\* Lines 435-444: registry check error: terminal skipped.
WriteRegistryErrorSkip(r) ==
    /\ pc[r] = "w_regerr"
    /\ WriteStatus(r, "skipped")
    /\ Return(r)
    /\ UNCHANGED <<runs, composeFile, executionLog, helperVars, recreateVars, runtimeVars, notifs, lastUpdated, localVars,
                   gateVars, tagGhost, path, calls, threw, preRunImage>>

\* Lines 446-455: already up to date: terminal skipped.
WriteUpToDateSkip(r) ==
    /\ pc[r] = "w_uptodate"
    /\ WriteStatus(r, "skipped")
    /\ Return(r)
    /\ UNCHANGED <<runs, composeFile, executionLog, helperVars, recreateVars, runtimeVars, notifs, lastUpdated, localVars,
                   gateVars, tagGhost, path, calls, threw, preRunImage>>

\* ------------------------------------------------------------------ gate

Sev(c, h, m, l) == [critical |-> c, high |-> h, medium |-> m, low |-> l]

\* What one scanner may report for an image (result.summary).
ScannerOutputs == {Sev(0, 0, 0, 0), Sev(1, 0, 0, 0), Sev(0, 1, 0, 0), Sev(0, 0, 1, 1)}

\* What scanImage may return: one result per scanner that answered.
ScanResultLists == UNION {[1..n -> ScannerOutputs] : n \in 0..MaxScanners}

RECURSIVE combineScanSummaries(_)
\* combineScanSummaries: the sum per severity over the scanners' results.
combineScanSummaries(results) ==
    IF results = <<>> THEN Sev(0, 0, 0, 0)
    ELSE LET h == Head(results)
             t == combineScanSummaries(Tail(results))
         IN Sev(h.critical + t.critical, h.high + t.high,
                h.medium + t.medium, h.low + t.low)

TotalVulns(s) == s.critical + s.high + s.medium + s.low

\* shouldBlockUpdate(criteria, newSummary, currentSummary): current is {} when
\* the summary of the current image is undefined.
shouldBlockUpdate(criteria, new, current) ==
    CASE criteria = "any" -> TotalVulns(new) > 0
      [] criteria = "critical_high" -> new.critical > 0 \/ new.high > 0
      [] criteria = "critical" -> new.critical > 0
      [] criteria = "more_than_current" ->
            \E c \in current : TotalVulns(new) > TotalVulns(c)
      [] OTHER -> FALSE

\* Mutant of AfterGate: the callers do not test scanOutcome.blocked.
AfterGateIgnoresVerdict(r, blocked) ==
    IF path[r] = "compose" THEN "co_up" ELSE "sa_promote"

\* Position of the caller after scanAndCheckBlock returned (lines 504, 652).
AfterGate(r, blocked) ==
    IF path[r] = "compose"
    THEN (IF blocked THEN "co_restore" ELSE "co_up")
    ELSE (IF blocked THEN "sa_rmblocked" ELSE "sa_promote")

\* The calls scanAndCheckBlock makes to the scan-history store.
StoreCalls == {"saveVulnerabilityScan", "getCombinedScanForImage"}

\* A call to the scan-history store has thrown in run r.
StoreFailed(r) == threw[r] \cap StoreCalls # {}

\* Lines 203-212: scanAndCheckBlock returns its verdict to the caller.  The
\* summaries it decided from (the sets new and cur) are kept in the state
\* when keep holds; otherwise the scan-history store holds them.
ReturnVerdictFrom(r, blocked, new, cur, keep) ==
    /\ scanOutcome' = [scanOutcome EXCEPT ![r] = IF blocked THEN "blocked" ELSE "allowed"]
    /\ gateApproved' = [gateApproved EXCEPT ![r] =
          IF blocked THEN @ ELSE @ \cup {newImageId[r]}]
    /\ scanSummary' = [scanSummary EXCEPT ![r] = IF keep THEN new ELSE {}]
    /\ currentScanSummary' = [currentScanSummary EXCEPT ![r] = IF keep THEN cur ELSE {}]
    /\ Goto(r, AfterGate(r, blocked))

ReturnVerdict(r, blocked) == ReturnVerdictFrom(r, blocked, {}, {}, FALSE)

\* Line 204: the verdict of shouldBlockUpdate on the summaries obtained.
Decide(r, new, cur, keep) ==
    ReturnVerdictFrom(r, shouldBlockUpdate(vulnerabilityCriteria[r], new, cur),
                      {new}, cur, keep)

\* Mutant of GateScanNew: the empty-results test (line 126) is missing.
GateScanNewNoEmptyTest(r) ==
    /\ pc[r] = "g_scan"
    /\ Called(r, {"scanImage"})
    /\ \/ \E results \in ScanResultLists :
             LET sum == combineScanSummaries(results) IN
             /\ scanResults' = [scanResults EXCEPT ![r] = {Len(results)}]
             /\ UNCHANGED currentScanResults
             /\ scanStore' = [scanStore EXCEPT ![newImageId[r]] = {sum}]
             /\ IF vulnerabilityCriteria[r] = "more_than_current"
                THEN /\ scanSummary' = [scanSummary EXCEPT ![r] = {sum}]
                     /\ Goto(r, "g_lookup")
                     /\ UNCHANGED <<currentScanSummary, scanOutcome, gateApproved>>
                ELSE ReturnVerdict(r, shouldBlockUpdate(vulnerabilityCriteria[r], sum, {}))
             /\ UNCHANGED threw
       \/ /\ Raise(r, "scanImage")
          /\ UNCHANGED <<scanStore, gateVars>>
    /\ UNCHANGED <<runs, composeFile, executionLog, helperVars, recreateVars, settings, container, tag, tempTag, ledgerVars, localVars,
                   tagGhost, path, promise, preRunImage>>

\* Lines 111-159 and 203-212: scan the new image; without results return
\* blocked=false at once (126-128); otherwise save the results and, unless
\* the criteria needs the current image, decide.
GateScanNew(r) ==
    /\ pc[r] = "g_scan"
    /\ Called(r, {"scanImage"})
    /\ \/ \E results \in ScanResultLists :
             /\ scanResults' = [scanResults EXCEPT ![r] = {Len(results)}]
             /\ UNCHANGED currentScanResults
             /\ IF Len(results) = 0
                THEN /\ ReturnVerdict(r, FALSE)
                     /\ UNCHANGED scanStore
                ELSE LET sum == combineScanSummaries(results) IN
                     /\ scanStore' = [scanStore EXCEPT ![newImageId[r]] = {sum}]
                     /\ IF vulnerabilityCriteria[r] = "more_than_current"
                        THEN /\ scanSummary' = [scanSummary EXCEPT ![r] = {sum}]
                             /\ Goto(r, "g_lookup")
                             /\ UNCHANGED <<currentScanSummary, scanOutcome, gateApproved>>
                        ELSE ReturnVerdict(r, shouldBlockUpdate(vulnerabilityCriteria[r], sum, {}))
             /\ UNCHANGED threw
       \/ /\ Raise(r, "scanImage")
          /\ UNCHANGED <<scanStore, gateVars>>
    /\ UNCHANGED <<runs, composeFile, executionLog, helperVars, recreateVars, settings, container, tag, tempTag, ledgerVars, localVars,
                   tagGhost, path, promise, preRunImage>>

\* Lines 159-166 and 203-212: more_than_current: look up the cached scan of
\* the current image; decide on a hit.
GateLookupCurrent(r) ==
    /\ pc[r] = "g_lookup"
    /\ Called(r, {"getCombinedScanForImage"})
    /\ UNCHANGED <<scanResults, currentScanResults>>
    /\ IF scanStore[currentImageId[r]] # {}
       THEN \E new \in scanSummary[r] :
               Decide(r, new, scanStore[currentImageId[r]], StoreFailed(r))
       ELSE /\ Goto(r, "g_scancur")
            /\ UNCHANGED gateVars
    /\ UNCHANGED <<runs, composeFile, executionLog, helperVars, recreateVars, runtimeVars, ledgerVars, localVars, tagGhost, path,
                   promise, threw, preRunImage>>

\* Mutant of GateScanCurrent: the results of the on-demand scan are used for
\* the verdict but not saved.
GateScanCurrentNoSave(r) ==
    /\ pc[r] = "g_scancur"
    /\ Called(r, {"scanImage(current)"})
    /\ UNCHANGED <<scanResults, scanStore>>
    /\ \E new \in scanSummary[r] :
          \/ /\ currentScanResults' = [currentScanResults EXCEPT ![r] = {FALSE}]
             /\ ReturnVerdict(r, shouldBlockUpdate(vulnerabilityCriteria[r], new, {}))
             /\ UNCHANGED threw
          \/ \E results \in ScanResultLists \ {<<>>} :
                LET cur == combineScanSummaries(results) IN
                /\ currentScanResults' = [currentScanResults EXCEPT ![r] = {Len(results) > 0}]
                /\ ReturnVerdict(r, shouldBlockUpdate(vulnerabilityCriteria[r], new, {cur}))
                /\ UNCHANGED threw
          \/ /\ ReturnVerdict(r, shouldBlockUpdate(vulnerabilityCriteria[r], new, {}))
             /\ threw' = [threw EXCEPT ![r] = @ \cup {"scanImage(current)"}]
             /\ UNCHANGED currentScanResults
    /\ UNCHANGED <<runs, composeFile, executionLog, helperVars, recreateVars, settings, container, tag, tempTag, ledgerVars, localVars,
                   tagGhost, path, promise, preRunImage>>

\* Lines 167-212: no cached scan: scan the current image, save the results,
\* decide.  A scanner failure here is caught inside the gate (line 198).
GateScanCurrent(r) ==
    /\ pc[r] = "g_scancur"
    /\ Called(r, {"scanImage(current)"})
    /\ UNCHANGED scanResults
    /\ \E new \in scanSummary[r] :
          \/ /\ currentScanResults' = [currentScanResults EXCEPT ![r] = {FALSE}]
             /\ Decide(r, new, {}, StoreFailed(r))
             /\ UNCHANGED <<scanStore, threw>>
          \/ \E results \in ScanResultLists \ {<<>>} :
                LET cur == combineScanSummaries(results) IN
                /\ currentScanResults' = [currentScanResults EXCEPT ![r] = {Len(results) > 0}]
                /\ scanStore' = [scanStore EXCEPT ![currentImageId[r]] = {cur}]
                /\ Decide(r, new, {cur}, StoreFailed(r))
                /\ UNCHANGED threw
          \/ /\ Decide(r, new, {}, StoreFailed(r))
             /\ threw' = [threw EXCEPT ![r] = @ \cup {"scanImage(current)"}]
             /\ UNCHANGED <<scanStore, currentScanResults>>
    /\ UNCHANGED <<runs, composeFile, executionLog, helperVars, recreateVars, settings, container, tag, tempTag, ledgerVars, localVars,
                   tagGhost, path, promise, preRunImage>>

\* ------------------------------------------------------------------ standalone

\* Lines 616-623: pull the image reference; the pull moves the tag.
SaPull(r) ==
    /\ pc[r] = "sa_pull"
    /\ Called(r, {"pullImage"})
    /\ \/ /\ tag' = NewImage
          /\ TagStep(r)
          /\ Goto(r, "sa_resolve")
          /\ UNCHANGED threw
       \/ /\ Raise(r, "pullImage")
          /\ UNCHANGED <<tag, tagGhost>>
    /\ UNCHANGED <<runs, composeFile, executionLog, helperVars, recreateVars, settings, container, tempTag, scanStore, ledgerVars, localVars,
                   gateVars, path, promise, preRunImage>>

\* Lines 625-630: re-resolve the image identity of the reference.
SaResolve(r) ==
    /\ pc[r] = "sa_resolve"
    /\ Called(r, {"getImageIdByTag"})
    /\ \/ /\ newImageId' = [newImageId EXCEPT ![r] = tag]
          /\ Goto(r, "sa_restore")
          /\ UNCHANGED threw
       \/ /\ Raise(r, "getImageIdByTag")
          /\ UNCHANGED newImageId
    /\ UNCHANGED <<runs, composeFile, executionLog, helperVars, recreateVars, runtimeVars, ledgerVars, imageRef, currentImageId,
                   isStackContainer, shouldScan, vulnerabilityCriteria,
                   registryCheck, wasRunning, gateVars, tagGhost, path,
                   promise, preRunImage>>

\* tagImage(image, repo, tag) on the original reference: applied when the
\* runtime accepts it; an absent image identity is always refused.
TagOriginal(r, image, next) ==
    /\ Called(r, {"tagImage"})
    /\ IF image = NoImage
       THEN /\ Raise(r, "tagImage")
            /\ UNCHANGED <<tag, tagGhost>>
       ELSE \/ /\ tag' = image
               /\ TagStep(r)
               /\ Goto(r, next)
               /\ UNCHANGED threw
            \/ /\ Raise(r, "tagImage")
               /\ UNCHANGED <<tag, tagGhost>>

\* Mutant of SaRestore: the new image is tagged onto the original reference.
SaRestoreTagsNew(r) ==
    /\ pc[r] = "sa_restore"
    /\ TagOriginal(r, newImageId[r], "sa_temptag")
    /\ UNCHANGED <<runs, composeFile, executionLog, helperVars, recreateVars, settings, container, tempTag, scanStore, ledgerVars,
                   localVars, gateVars, path, promise, preRunImage>>

\* Lines 632-635: re-tag the old image onto the original reference.
SaRestore(r) ==
    /\ pc[r] = "sa_restore"
    /\ TagOriginal(r, currentImageId[r], "sa_temptag")
    /\ UNCHANGED <<runs, composeFile, executionLog, helperVars, recreateVars, settings, container, tempTag, scanStore, ledgerVars, localVars,
                   gateVars, path, promise, preRunImage>>

\* Mutant of SaTempTag: scanning starts without the temporary tag.
SaTempTagSkipped(r) ==
    /\ pc[r] = "sa_temptag"
    /\ Goto(r, "g_scan")
    /\ UNCHANGED <<runs, composeFile, executionLog, helperVars, recreateVars, runtimeVars, ledgerVars, localVars, gateVars,
                   tagGhost, path, promise, calls, threw, preRunImage>>

\* Lines 637-640: tag the new image under the temporary tag.
SaTempTag(r) ==
    /\ pc[r] = "sa_temptag"
    /\ Called(r, {"tagImage"})
    /\ \/ /\ tempTag' = newImageId[r]
          /\ TagStep(r)
          /\ Goto(r, "g_scan")
          /\ UNCHANGED threw
       \/ /\ Raise(r, "tagImage")
          /\ UNCHANGED <<tempTag, tagGhost>>
    /\ UNCHANGED <<runs, composeFile, executionLog, helperVars, recreateVars, settings, container, tag, scanStore, ledgerVars, localVars,
                   gateVars, path, promise, preRunImage>>

\* removeTempImage: the temporary-tagged image is deleted, or the call throws.
RemoveTemp(r, next) ==
    /\ Called(r, {"removeTempImage"})
    /\ \/ /\ tempTag' = NoImage
          /\ TagStep(r)
          /\ Goto(r, next)
          /\ UNCHANGED threw
       \/ /\ Raise(r, "removeTempImage")
          /\ UNCHANGED <<tempTag, tagGhost>>

\* Lines 652-654: blocked: delete the temporary-tagged image.
SaRemoveBlocked(r) ==
    /\ pc[r] = "sa_rmblocked"
    /\ RemoveTemp(r, "w_sa_blocked")
    /\ UNCHANGED <<runs, composeFile, executionLog, helperVars, recreateVars, settings, container, tag, scanStore, ledgerVars, localVars,
                   gateVars, path, promise, preRunImage>>

\* Lines 656-667: blocked: terminal skipped with the block detail.
WriteSaBlocked(r) ==
    /\ pc[r] = "w_sa_blocked"
    /\ WriteStatus(r, "skipped")
    /\ Goto(r, "n_sa_blocked")
    /\ UNCHANGED <<runs, composeFile, executionLog, helperVars, recreateVars, runtimeVars, notifs, lastUpdated, localVars, gateVars,
                   tagGhost, path, promise, calls, threw, preRunImage>>

\* Lines 669-675: blocked notification, return.
NotifySaBlocked(r) ==
    /\ pc[r] = "n_sa_blocked"
    /\ Notify(r, "blocked")
    /\ Return(r)
    /\ UNCHANGED <<runs, composeFile, executionLog, helperVars, recreateVars, runtimeVars, execStatus, termWrites, writeSite, lastUpdated,
                   localVars, gateVars, tagGhost, path, calls, threw, preRunImage>>

\* Mutant of SaScanError: the temporary-tagged image is left in place.
SaScanErrorKeepsTemp(r) ==
    /\ pc[r] = "sa_scanerr"
    /\ Goto(r, "w_sa_scanfail")
    /\ UNCHANGED <<runs, composeFile, executionLog, helperVars, recreateVars, runtimeVars, ledgerVars, localVars, gateVars,
                   tagGhost, path, promise, calls, threw, preRunImage>>

\* Lines 677-680: catch (scanError): delete the temporary-tagged image.
SaScanError(r) ==
    /\ pc[r] = "sa_scanerr"
    /\ RemoveTemp(r, "w_sa_scanfail")
    /\ UNCHANGED <<runs, composeFile, executionLog, helperVars, recreateVars, settings, container, tag, scanStore, ledgerVars, localVars,
                   gateVars, path, promise, preRunImage>>

\* Lines 682-688: scan failed: terminal failed, return.
WriteSaScanFailed(r) ==
    /\ pc[r] = "w_sa_scanfail"
    /\ WriteStatus(r, "failed")
    /\ Return(r)
    /\ UNCHANGED <<runs, composeFile, executionLog, helperVars, recreateVars, runtimeVars, notifs, lastUpdated, localVars,
                   gateVars, tagGhost, path, calls, threw, preRunImage>>

\* Lines 691-693: approved: re-tag the new image onto the original reference.
SaPromote(r) ==
    /\ pc[r] = "sa_promote"
    /\ Log(r, {"Re-tagging approved image"})
    /\ TagOriginal(r, newImageId[r], "sa_cleanup")
    /\ UNCHANGED <<runs, composeFile, helperVars, recreateVars, settings, container, tempTag, scanStore, ledgerVars, localVars,
                   gateVars, path, promise, preRunImage>>

\* Mutant of SaCleanup: the temporary tag is never removed.
SaCleanupKeepsTemp(r) ==
    /\ pc[r] = "sa_cleanup"
    /\ Goto(r, "rc_find")
    /\ UNCHANGED <<runs, composeFile, executionLog, helperVars, recreateVars, runtimeVars, ledgerVars, localVars, gateVars,
                   tagGhost, path, promise, calls, threw, preRunImage>>

\* Lines 695-698: remove the temporary tag; a failure is ignored.
SaCleanup(r) ==
    /\ pc[r] = "sa_cleanup"
    /\ Called(r, {"removeTempImage"})
    /\ Goto(r, "rc_find")
    /\ \/ /\ tempTag' = NoImage
          /\ TagStep(r)
          /\ UNCHANGED threw
       \/ /\ threw' = [threw EXCEPT ![r] = @ \cup {"removeTempImage"}]
          /\ UNCHANGED <<tempTag, tagGhost>>
    /\ UNCHANGED <<runs, composeFile, executionLog, helperVars, recreateVars, settings, container, tag, scanStore, ledgerVars, localVars,
                   gateVars, path, promise, preRunImage>>

\* Lines 700-709: catch (pullError): terminal failed, return.
SaPullError(r) ==
    /\ pc[r] = "sa_pullerr"
    /\ Log(r, {"Pull failed"})
    /\ WriteStatus(r, "failed")
    /\ Return(r)
    /\ UNCHANGED <<runs, composeFile, helperVars, recreateVars, runtimeVars, notifs, lastUpdated, localVars,
                   gateVars, tagGhost, path, calls, threw, preRunImage>>

\* Lines 710-715: scanning disabled: pull only.
NsPull(r) ==
    /\ pc[r] = "ns_pull"
    /\ Called(r, {"pullImage"})
    /\ \/ /\ tag' = NewImage
          /\ TagStep(r)
          /\ Log(r, {"Pulling update (no vulnerability scan)", "Image pulled successfully"})
          /\ Goto(r, "rc_find")
          /\ UNCHANGED threw
       \/ /\ Raise(r, "pullImage")
          /\ Log(r, {"Pulling update (no vulnerability scan)"})
          /\ UNCHANGED <<tag, tagGhost>>
    /\ UNCHANGED <<runs, composeFile, helperVars, recreateVars, settings, container, tempTag, scanStore, ledgerVars, localVars,
                   gateVars, path, promise, preRunImage>>

\* Lines 716-725: catch (pullError) of the pull without scan.
NsPullError(r) ==
    /\ pc[r] = "ns_pullerr"
    /\ Log(r, {"Pull failed"})
    /\ WriteStatus(r, "failed")
    /\ Return(r)
    /\ UNCHANGED <<runs, composeFile, helperVars, recreateVars, runtimeVars, notifs, lastUpdated, localVars,
                   gateVars, tagGhost, path, calls, threw, preRunImage>>

\* ------------------------------------------------------------------ recreate

\* recreateContainer caught an exception or did not find the container: it
\* returns false (lines 802-805, 906-909) and line 764 throws to the outer
\* catch.
RecreateFailed(r, name) ==
    /\ pc' = [pc EXCEPT ![r] = "catch"]
    /\ threw' = [threw EXCEPT ![r] = @ \cup {name, "recreateContainer"}]
    /\ recreateResult' = [recreateResult EXCEPT ![r] = "false"]

\* extractContainerOptions(inspectData): the settings of the snapshot.
extractContainerOptions(d) == d.options

\* Lines 824-876: the networks of the snapshot other than the primary one.
additionalNetworks(d) == {n \in d.networks : n # PrimaryNetwork}

\* Mutant of AfterNetworks: the new container is started whether or not the
\* old one was running.
AfterNetworksAlwaysStarts(r, todo) ==
    IF todo # {} THEN "rc_connect" ELSE "rc_start"

\* Position after the networks in todo are left to attempt (lines 885-905);
\* without networks to attempt and without a start, recreateContainer
\* returns true (line 905) and the caller goes on at line 741.
AfterNetworks(r, todo) ==
    IF todo # {} THEN "rc_connect"
    ELSE IF wasRunning[r] THEN "rc_start" ELSE "w_success"

\* recreateContainer goes on to position next, returning true if that is
\* the caller's.
RecreateGoesOn(r, next) ==
    /\ Goto(r, next)
    /\ recreateResult' = [recreateResult EXCEPT ![r] =
          IF next = "w_success" THEN "true" ELSE @]
    /\ UNCHANGED threw

\* Lines 798-812: recreateContainer: find and inspect the container; the
\* inspection is the snapshot the new container is built from.
RcFind(r) ==
    /\ pc[r] = "rc_find"
    /\ Called(r, {"recreateContainer"})
    /\ \/ IF container.exists
          THEN /\ wasRunning' = [wasRunning EXCEPT ![r] = container.running]
               /\ inspectData' = [inspectData EXCEPT ![r] =
                     {[options |-> container.options,
                       networks |-> container.networks,
                       running |-> container.running]}]
               /\ Goto(r, IF container.running THEN "rc_stop" ELSE "rc_remove")
               /\ UNCHANGED <<threw, recreateResult>>
          ELSE /\ RecreateFailed(r, "not found")
               /\ UNCHANGED <<wasRunning, inspectData>>
       \/ /\ RecreateFailed(r, "inspectContainer")
          /\ UNCHANGED <<wasRunning, inspectData>>
    /\ UNCHANGED <<runs, composeFile, executionLog, helperVars, runtimeVars, ledgerVars, imageRef, currentImageId,
                   newImageId, isStackContainer, shouldScan,
                   vulnerabilityCriteria, registryCheck, gateVars, tagGhost,
                   createCount, netTodo, netFailed, path, promise, preRunImage>>

\* Lines 814-817: stop the running container.
RcStop(r) ==
    /\ pc[r] = "rc_stop"
    /\ Called(r, {"stopContainer"})
    /\ \/ IF container.exists
          THEN /\ container' = [container EXCEPT !.running = FALSE]
               /\ Goto(r, "rc_remove")
               /\ UNCHANGED <<threw, recreateResult>>
          ELSE /\ RecreateFailed(r, "stopContainer")
               /\ UNCHANGED container
       \/ /\ RecreateFailed(r, "stopContainer")
          /\ UNCHANGED container
    /\ UNCHANGED <<runs, composeFile, executionLog, helperVars, settings, tag, tempTag, scanStore, ledgerVars, localVars,
                   gateVars, tagGhost, inspectData, createCount, netTodo,
                   netFailed, path, promise, preRunImage>>

\* Lines 819-820: remove the old container (forced).
RcRemove(r) ==
    /\ pc[r] = "rc_remove"
    /\ Called(r, {"removeContainer"})
    /\ \/ IF container.exists
          THEN /\ container' = [container EXCEPT !.exists = FALSE, !.running = FALSE,
                                                 !.options = NoOptions, !.networks = {}]
               /\ Goto(r, "rc_create")
               /\ UNCHANGED <<threw, recreateResult>>
          ELSE /\ RecreateFailed(r, "removeContainer")
               /\ UNCHANGED container
       \/ /\ RecreateFailed(r, "removeContainer")
          /\ UNCHANGED container
    /\ UNCHANGED <<runs, composeFile, executionLog, helperVars, settings, tag, tempTag, scanStore, ledgerVars, localVars,
                   gateVars, tagGhost, inspectData, createCount, netTodo,
                   netFailed, path, promise, preRunImage>>

\* Mutant of RcCreate: the options are taken from the container as it is at
\* creation time instead of the snapshot.
RcCreateFromLiveContainer(r) ==
    /\ pc[r] = "rc_create"
    /\ Called(r, {"createContainer"})
    /\ createCount' = [createCount EXCEPT ![r] = @ + 1]
    /\ \E d \in inspectData[r] :
          \/ IF ~container.exists
             THEN /\ container' = [container EXCEPT
                        !.exists = TRUE, !.image = tag, !.running = FALSE,
                        !.options = container.options,
                        !.networks = d.networks \cap {PrimaryNetwork}]
                  /\ netTodo' = [netTodo EXCEPT ![r] = additionalNetworks(d)]
                  /\ RecreateGoesOn(r, AfterNetworks(r, additionalNetworks(d)))
             ELSE /\ RecreateFailed(r, "createContainer")
                  /\ UNCHANGED <<container, netTodo>>
          \/ /\ RecreateFailed(r, "createContainer")
             /\ UNCHANGED <<container, netTodo>>
    /\ UNCHANGED <<runs, composeFile, executionLog, helperVars, settings, tag, tempTag, scanStore, ledgerVars, localVars,
                   gateVars, tagGhost, inspectData, netFailed, path, promise,
                   preRunImage>>

\* Lines 822-883: build the options and the list of secondary networks from
\* the snapshot, create the new container; the runtime resolves the image
\* reference at creation and refuses a name that is in use.
RcCreate(r) ==
    /\ pc[r] = "rc_create"
    /\ Called(r, {"createContainer"})
    /\ createCount' = [createCount EXCEPT ![r] = @ + 1]
    /\ \E d \in inspectData[r] :
          \/ IF ~container.exists
             THEN /\ container' = [container EXCEPT
                        !.exists = TRUE, !.image = tag, !.running = FALSE,
                        !.options = extractContainerOptions(d),
                        !.networks = d.networks \cap {PrimaryNetwork}]
                  /\ netTodo' = [netTodo EXCEPT ![r] = additionalNetworks(d)]
                  /\ RecreateGoesOn(r, AfterNetworks(r, additionalNetworks(d)))
             ELSE /\ RecreateFailed(r, "createContainer")
                  /\ UNCHANGED <<container, netTodo>>
          \/ /\ RecreateFailed(r, "createContainer")
             /\ UNCHANGED <<container, netTodo>>
    /\ UNCHANGED <<runs, composeFile, executionLog, helperVars, settings, tag, tempTag, scanStore, ledgerVars, localVars,
                   gateVars, tagGhost, inspectData, netFailed, path, promise,
                   preRunImage>>

\* The secondary network the loop of line 885 attempts next.
NextNetwork(todo) == CHOOSE n \in todo : \A m \in todo : n <= m

\* Mutant of RcConnect: a failing connect call aborts the recreation.
RcConnectAbortsOnFailure(r) ==
    /\ pc[r] = "rc_connect"
    /\ Called(r, {"connectContainerToNetwork"})
    /\ LET n == NextNetwork(netTodo[r])
           rest == netTodo[r] \ {n}
       IN \/ IF container.exists
             THEN /\ container' = [container EXCEPT !.networks = @ \cup {n}]
                  /\ netTodo' = [netTodo EXCEPT ![r] = rest]
                  /\ RecreateGoesOn(r, AfterNetworks(r, rest))
                  /\ UNCHANGED netFailed
             ELSE /\ netFailed' = [netFailed EXCEPT ![r] = @ \cup {n}]
                  /\ RecreateFailed(r, "connectContainerToNetwork")
                  /\ UNCHANGED <<container, netTodo>>
          \/ /\ netFailed' = [netFailed EXCEPT ![r] = @ \cup {n}]
             /\ RecreateFailed(r, "connectContainerToNetwork")
             /\ UNCHANGED <<container, netTodo>>
    /\ UNCHANGED <<runs, composeFile, executionLog, helperVars, settings, tag, tempTag, scanStore, ledgerVars, localVars,
                   gateVars, tagGhost, inspectData, createCount, path, promise,
                   preRunImage>>

\* A connect call threw: the failure is logged (line 895) and the loop goes on.
ConnectFailed(r, n, rest) ==
    /\ netFailed' = [netFailed EXCEPT ![r] = @ \cup {n}]
    /\ netTodo' = [netTodo EXCEPT ![r] = rest]
    /\ Goto(r, AfterNetworks(r, rest))
    /\ recreateResult' = [recreateResult EXCEPT ![r] =
          IF AfterNetworks(r, rest) = "w_success" THEN "true" ELSE @]
    /\ threw' = [threw EXCEPT ![r] = @ \cup {"connectContainerToNetwork"}]
    /\ UNCHANGED container

\* Lines 885-897: one turn of the loop over the secondary networks.
RcConnect(r) ==
    /\ pc[r] = "rc_connect"
    /\ Called(r, {"connectContainerToNetwork"})
    /\ LET n == NextNetwork(netTodo[r])
           rest == netTodo[r] \ {n}
       IN \/ IF container.exists
             THEN /\ container' = [container EXCEPT !.networks = @ \cup {n}]
                  /\ netTodo' = [netTodo EXCEPT ![r] = rest]
                  /\ RecreateGoesOn(r, AfterNetworks(r, rest))
                  /\ UNCHANGED netFailed
             ELSE ConnectFailed(r, n, rest)
          \/ ConnectFailed(r, n, rest)
    /\ UNCHANGED <<runs, composeFile, executionLog, helperVars, settings, tag, tempTag, scanStore, ledgerVars, localVars,
                   gateVars, tagGhost, inspectData, createCount, path, promise,
                   preRunImage>>

\* Mutant of RcStart: a failing start is ignored and true is returned.
RcStartIgnoresFailure(r) ==
    /\ pc[r] = "rc_start"
    /\ Called(r, {"startContainer"})
    /\ \/ IF container.exists
          THEN /\ container' = [container EXCEPT !.running = TRUE]
               /\ RecreateGoesOn(r, "w_success")
          ELSE /\ RecreateGoesOn(r, "w_success")
               /\ UNCHANGED container
       \/ /\ Goto(r, "w_success")
          /\ recreateResult' = [recreateResult EXCEPT ![r] = "true"]
          /\ threw' = [threw EXCEPT ![r] = @ \cup {"startContainer"}]
          /\ UNCHANGED container
    /\ UNCHANGED <<runs, composeFile, executionLog, helperVars, settings, tag, tempTag, scanStore, ledgerVars, localVars,
                   gateVars, tagGhost, inspectData, createCount, netTodo,
                   netFailed, path, promise, preRunImage>>

\* Lines 899-905: start the new container if the old one was running, then
\* return true.
RcStart(r) ==
    /\ pc[r] = "rc_start"
    /\ Called(r, {"startContainer"})
    /\ \/ IF container.exists
          THEN /\ container' = [container EXCEPT !.running = TRUE]
               /\ RecreateGoesOn(r, "w_success")
          ELSE /\ RecreateFailed(r, "startContainer")
               /\ UNCHANGED container
       \/ /\ RecreateFailed(r, "startContainer")
          /\ UNCHANGED container
    /\ UNCHANGED <<runs, composeFile, executionLog, helperVars, settings, tag, tempTag, scanStore, ledgerVars, localVars,
                   gateVars, tagGhost, inspectData, createCount, netTodo,
                   netFailed, path, promise, preRunImage>>

\* Lines 741-756: last-updated bookkeeping, terminal success.
WriteSuccess(r) ==
    /\ pc[r] = "w_success"
    /\ lastUpdated' = [lastUpdated EXCEPT ![r] = TRUE]
    /\ Log(r, {"Successfully updated container"})
    /\ WriteStatus(r, "success")
    /\ Goto(r, "n_success")
    /\ UNCHANGED <<runs, composeFile, helperVars, recreateVars, runtimeVars, notifs, localVars, gateVars, tagGhost,
                   path, promise, calls, threw, preRunImage>>

\* Mutant of NotifySuccess: the run returns without the notification.
NotifySuccessSkipped(r) ==
    /\ pc[r] = "n_success"
    /\ Return(r)
    /\ UNCHANGED <<runs, composeFile, executionLog, helperVars, recreateVars, runtimeVars, ledgerVars,
                   localVars, gateVars, tagGhost, path, calls, threw, preRunImage>>

\* Lines 758-762: success notification, return.
NotifySuccess(r) ==
    /\ pc[r] = "n_success"
    /\ Notify(r, "success")
    /\ Return(r)
    /\ UNCHANGED <<runs, composeFile, executionLog, helperVars, recreateVars, runtimeVars, execStatus, termWrites, writeSite, lastUpdated,
                   localVars, gateVars, tagGhost, path, calls, threw, preRunImage>>

\* Lines 767-774: outer catch: terminal failed.
OuterCatch(r) ==
    /\ pc[r] = "catch"
    /\ WriteStatus(r, "failed")
    /\ Goto(r, "n_catch")
    /\ UNCHANGED <<runs, composeFile, executionLog, helperVars, recreateVars, runtimeVars, notifs, lastUpdated, localVars, gateVars,
                   tagGhost, path, promise, calls, threw, preRunImage>>

\* Lines 776-781: failure notification, return.
NotifyFailed(r) ==
    /\ pc[r] = "n_catch"
    /\ Notify(r, "failed")
    /\ Return(r)
    /\ UNCHANGED <<runs, composeFile, executionLog, helperVars, recreateVars, runtimeVars, execStatus, termWrites, writeSite, lastUpdated,
                   localVars, gateVars, tagGhost, path, calls, threw, preRunImage>>

\* ------------------------------------------------------------------ compose

\* Mutant of CoLookup: the compose flow is entered whether or not the
\* compose file was resolved.
CoLookupNoFallback(r) ==
    /\ pc[r] = "co_lookup"
    /\ Called(r, {"getStackComposeFile"})
    /\ \/ /\ \E found \in {"resolved", "unresolved"} :
                composeFile' = [composeFile EXCEPT ![r] = found]
          /\ path' = [path EXCEPT ![r] = "compose"]
          /\ Goto(r, "co_pull")
          /\ UNCHANGED threw
       \/ /\ Raise(r, "getStackComposeFile")
          /\ UNCHANGED <<path, composeFile>>
    /\ UNCHANGED <<runs, executionLog, helperVars, recreateVars, runtimeVars, ledgerVars,
                   localVars, gateVars, tagGhost, promise, preRunImage>>

\* Lines 469-474 and 598-600: resolve the compose file; without it the run
\* falls through to the standalone flow.
CoLookup(r) ==
    /\ pc[r] = "co_lookup"
    /\ Called(r, {"getStackComposeFile"})
    /\ \/ /\ composeFile' = [composeFile EXCEPT ![r] = "resolved"]
          /\ path' = [path EXCEPT ![r] = "compose"]
          /\ Goto(r, "co_pull")
          /\ UNCHANGED threw
       \/ /\ composeFile' = [composeFile EXCEPT ![r] = "unresolved"]
          /\ path' = [path EXCEPT ![r] = "standalone"]
          /\ Goto(r, StandaloneEntry(shouldScan[r], imageRef[r]))
          /\ UNCHANGED threw
       \/ /\ Raise(r, "getStackComposeFile")
          /\ UNCHANGED <<path, composeFile>>
    /\ UNCHANGED <<runs, executionLog, helperVars, recreateVars, runtimeVars, ledgerVars,
                   localVars, gateVars, tagGhost, promise, preRunImage>>

\* Lines 476-483: docker compose pull <service>; the pull moves the tag.
CoPull(r) ==
    /\ pc[r] = "co_pull"
    /\ Called(r, {"pullStackService"})
    /\ \/ /\ tag' = NewImage
          /\ TagStep(r)
          /\ Goto(r, "co_resolve")
          /\ UNCHANGED threw
       \/ /\ Raise(r, "pullStackService")
          /\ UNCHANGED <<tag, tagGhost>>
    /\ UNCHANGED <<runs, composeFile, executionLog, helperVars, recreateVars, settings, container, tempTag, scanStore, ledgerVars, localVars,
                   gateVars, path, promise, preRunImage>>

\* Mutant of CoResolve: the apply follows the pull without the gate.
CoResolveSkipsScan(r) ==
    /\ pc[r] = "co_resolve"
    /\ Called(r, {"getImageIdByTag"})
    /\ \/ /\ newImageId' = [newImageId EXCEPT ![r] = tag]
          /\ Goto(r, "co_up")
          /\ UNCHANGED threw
       \/ /\ Raise(r, "getImageIdByTag")
          /\ UNCHANGED newImageId
    /\ UNCHANGED <<runs, composeFile, executionLog, helperVars, recreateVars, runtimeVars, ledgerVars, imageRef, currentImageId,
                   isStackContainer, shouldScan, vulnerabilityCriteria,
                   registryCheck, wasRunning, gateVars, tagGhost, path,
                   promise, preRunImage>>

\* Lines 485-494: resolve the new image identity.
CoResolve(r) ==
    /\ pc[r] = "co_resolve"
    /\ Called(r, {"getImageIdByTag"})
    /\ \/ /\ newImageId' = [newImageId EXCEPT ![r] = tag]
          /\ Goto(r, IF shouldScan[r] THEN "g_scan" ELSE "co_up")
          /\ UNCHANGED threw
       \/ /\ Raise(r, "getImageIdByTag")
          /\ UNCHANGED newImageId
    /\ UNCHANGED <<runs, composeFile, executionLog, helperVars, recreateVars, runtimeVars, ledgerVars, imageRef, currentImageId,
                   isStackContainer, shouldScan, vulnerabilityCriteria,
                   registryCheck, wasRunning, gateVars, tagGhost, path,
                   promise, preRunImage>>

\* Lines 504-508: blocked: re-tag the old image onto the reference.
CoRestore(r) ==
    /\ pc[r] = "co_restore"
    /\ TagOriginal(r, currentImageId[r], "w_co_blocked")
    /\ UNCHANGED <<runs, composeFile, executionLog, helperVars, recreateVars, settings, container, tempTag, scanStore, ledgerVars, localVars,
                   gateVars, path, promise, preRunImage>>

\* Lines 510-521: blocked: terminal skipped with the block detail.
WriteCoBlocked(r) ==
    /\ pc[r] = "w_co_blocked"
    /\ WriteStatus(r, "skipped")
    /\ Goto(r, "n_co_blocked")
    /\ UNCHANGED <<runs, composeFile, executionLog, helperVars, recreateVars, runtimeVars, notifs, lastUpdated, localVars, gateVars,
                   tagGhost, path, promise, calls, threw, preRunImage>>

\* Lines 523-529: blocked notification, return.
NotifyCoBlocked(r) ==
    /\ pc[r] = "n_co_blocked"
    /\ Notify(r, "blocked")
    /\ Return(r)
    /\ UNCHANGED <<runs, composeFile, executionLog, helperVars, recreateVars, runtimeVars, execStatus, termWrites, writeSite, lastUpdated,
                   localVars, gateVars, tagGhost, path, calls, threw, preRunImage>>

\* Lines 531-535: catch (scanError): re-tag the old image onto the reference.
CoScanError(r) ==
    /\ pc[r] = "co_scanerr"
    /\ TagOriginal(r, currentImageId[r], "w_co_scanfail")
    /\ UNCHANGED <<runs, composeFile, executionLog, helperVars, recreateVars, settings, container, tempTag, scanStore, ledgerVars, localVars,
                   gateVars, path, promise, preRunImage>>

\* Lines 537-543: scan failed: terminal failed, return.
WriteCoScanFailed(r) ==
    /\ pc[r] = "w_co_scanfail"
    /\ WriteStatus(r, "failed")
    /\ Return(r)
    /\ UNCHANGED <<runs, composeFile, executionLog, helperVars, recreateVars, runtimeVars, notifs, lastUpdated, localVars,
                   gateVars, tagGhost, path, calls, threw, preRunImage>>

\* Lines 547-552: docker compose up -d <service>: the compose engine
\* recreates the service container on the image the reference resolves to.
CoUp(r) ==
    /\ pc[r] = "co_up"
    /\ Called(r, {"updateStackService"})
    /\ \/ /\ container' = [container EXCEPT !.exists = TRUE, !.image = tag,
                                            !.running = TRUE]
          /\ Goto(r, "w_co_success")
          /\ UNCHANGED threw
       \/ /\ Raise(r, "updateStackService")
          /\ UNCHANGED container
    /\ UNCHANGED <<runs, composeFile, executionLog, helperVars, recreateVars, settings, tag, tempTag, scanStore, ledgerVars, localVars,
                   gateVars, tagGhost, path, promise, preRunImage>>

\* Lines 554-569: last-updated bookkeeping, terminal success.
WriteCoSuccess(r) ==
    /\ pc[r] = "w_co_success"
    /\ lastUpdated' = [lastUpdated EXCEPT ![r] = TRUE]
    /\ WriteStatus(r, "success")
    /\ Goto(r, "n_co_success")
    /\ UNCHANGED <<runs, composeFile, executionLog, helperVars, recreateVars, runtimeVars, notifs, localVars, gateVars, tagGhost,
                   path, promise, calls, threw, preRunImage>>

\* Lines 571-577: success notification, return.
NotifyCoSuccess(r) ==
    /\ pc[r] = "n_co_success"
    /\ Notify(r, "success")
    /\ Return(r)
    /\ UNCHANGED <<runs, composeFile, executionLog, helperVars, recreateVars, runtimeVars, execStatus, termWrites, writeSite, lastUpdated,
                   localVars, gateVars, tagGhost, path, calls, threw, preRunImage>>

\* Lines 579-586: catch (composeError): terminal failed.
CoError(r) ==
    /\ pc[r] = "co_err"
    /\ WriteStatus(r, "failed")
    /\ Goto(r, "n_co_err")
    /\ UNCHANGED <<runs, composeFile, executionLog, helperVars, recreateVars, runtimeVars, notifs, lastUpdated, localVars, gateVars,
                   tagGhost, path, promise, calls, threw, preRunImage>>

\* Lines 588-594: failure notification, return.
NotifyCoFailed(r) ==
    /\ pc[r] = "n_co_err"
    /\ Notify(r, "failed")
    /\ Return(r)
    /\ UNCHANGED <<runs, composeFile, executionLog, helperVars, recreateVars, runtimeVars, execStatus, termWrites, writeSite, lastUpdated,
                   localVars, gateVars, tagGhost, path, calls, threw, preRunImage>>

\* ------------------------------------------------------------------ specification

\* Steps up to the dispatch, and the outer catch.
PreambleStep(r) ==
    \/ Start(r) \/ FindContainer(r) \/ WriteNotFound(r)
    \/ InspectContainer(r) \/ CheckRegistry(r) \/ WriteLocalSkip(r)
    \/ WriteRegistryErrorSkip(r) \/ WriteUpToDateSkip(r)
    \/ OuterCatch(r) \/ NotifyFailed(r)

\* Early returns on the image reference.
RefSkipStep(r) ==
    WriteNoImageName(r) \/ WriteSystemSkip(r) \/ WriteDigestSkip(r)

\* Compose-native flow.
ComposeStep(r) ==
    \/ CoLookup(r) \/ CoPull(r) \/ CoResolve(r)
    \/ CoRestore(r) \/ WriteCoBlocked(r) \/ NotifyCoBlocked(r)
    \/ CoScanError(r) \/ WriteCoScanFailed(r)
    \/ CoUp(r) \/ WriteCoSuccess(r) \/ NotifyCoSuccess(r)
    \/ CoError(r) \/ NotifyCoFailed(r)

\* Temp-tag protection flow (scanning enabled), with the scan of the new image.
SafetyTaggingStep(r) ==
    \/ SaPull(r) \/ SaResolve(r) \/ SaRestore(r) \/ SaTempTag(r)
    \/ GateScanNew(r)
    \/ SaRemoveBlocked(r) \/ WriteSaBlocked(r) \/ NotifySaBlocked(r)
    \/ SaScanError(r) \/ WriteSaScanFailed(r)
    \/ SaPromote(r) \/ SaCleanup(r) \/ SaPullError(r)

\* recreateContainer and the success bookkeeping.
RecreateStep(r) ==
    \/ RcFind(r) \/ RcStop(r) \/ RcRemove(r) \/ RcCreate(r) \/ RcConnect(r)
    \/ RcStart(r) \/ WriteSuccess(r) \/ NotifySuccess(r)

\* One step of run r.
Step(r) ==
    \/ PreambleStep(r) \/ RefSkipStep(r) \/ ComposeStep(r)
    \/ SafetyTaggingStep(r) \/ GateLookupCurrent(r) \/ GateScanCurrent(r)
    \/ NsPull(r) \/ NsPullError(r) \/ RecreateStep(r)

Next == \E r \in runs : Step(r)

Spec == Init /\ [][Next]_vars

\* ------------------------------------------------------------------ ledger faults

\* Positions whose step is a terminal updateScheduleExecution.
WriteSites ==
    {"w_notfound", "w_noimage", "w_system", "w_digest", "w_local", "w_regerr",
     "w_uptodate", "w_sa_blocked", "w_sa_scanfail", "sa_pullerr", "ns_pullerr",
     "w_success", "catch", "w_co_blocked", "w_co_scanfail", "w_co_success",
     "co_err"}

\* Positions whose step is a sendEventNotification.
NotifySites ==
    {"n_sa_blocked", "n_success", "n_catch", "n_co_blocked", "n_co_success",
     "n_co_err"}

\* Positions that call the settings store or the auto-update bookkeeping:
\* updateAutoUpdateLastChecked (329), getScannerSettings and
\* getAutoUpdateSettingById (409-412), updateAutoUpdateLastUpdated (555, 742).
BookkeepingSites == {"find", "check", "w_success", "w_co_success"}

\* An exception at the position of r: to the enclosing catch, or, where no
\* try encloses the call, out of runContainerUpdate (the promise rejects).
ThrowTo(r, name) ==
    /\ threw' = [threw EXCEPT ![r] = @ \cup {name}]
    /\ IF Handler(r) = "reject"
       THEN /\ pc' = [pc EXCEPT ![r] = "done"]
            /\ promise' = [promise EXCEPT ![r] = "rejected"]
       ELSE /\ pc' = [pc EXCEPT ![r] = Handler(r)]
            /\ UNCHANGED promise

\* Lines 309-320: createScheduleExecution or the startedAt update throws;
\* both are outside the try.
StartFails(r) ==
    /\ pc[r] = "start"
    /\ ThrowTo(r, "createScheduleExecution")
    /\ \E created \in BOOLEAN :
          execStatus' = [execStatus EXCEPT ![r] = IF created THEN "running" ELSE "none"]
    /\ UNCHANGED <<runs, composeFile, executionLog, helperVars, recreateVars, runtimeVars, termWrites, writeSite, notifs, lastUpdated,
                   localVars, gateVars, tagGhost, path, calls, preRunImage>>

\* A terminal updateScheduleExecution throws; at the success writes the
\* bookkeeping of lines 555 / 742 was applied before.
LedgerWriteFails(r) ==
    /\ pc[r] \in WriteSites
    /\ ThrowTo(r, "updateScheduleExecution")
    /\ lastUpdated' = [lastUpdated EXCEPT ![r] =
          IF pc[r] \in {"w_success", "w_co_success"} THEN TRUE ELSE @]
    /\ Log(r, CASE pc[r] = "w_success" -> {"Successfully updated container"}
                [] pc[r] \in {"sa_pullerr", "ns_pullerr"} -> {"Pull failed"}
                [] OTHER -> {})
    /\ UNCHANGED <<runs, composeFile, helperVars, recreateVars, runtimeVars, execStatus, termWrites, writeSite, notifs,
                   localVars, gateVars, tagGhost, path, calls, preRunImage>>

\* A sendEventNotification throws.
NotifyFails(r) ==
    /\ pc[r] \in NotifySites
    /\ ThrowTo(r, "sendEventNotification")
    /\ UNCHANGED <<runs, composeFile, executionLog, helperVars, recreateVars, runtimeVars, ledgerVars, localVars, gateVars,
                   tagGhost, path, calls, preRunImage>>

\* A settings or bookkeeping call throws.
BookkeepingFails(r) ==
    /\ pc[r] \in BookkeepingSites
    /\ ThrowTo(r, "bookkeeping")
    /\ UNCHANGED <<runs, composeFile, executionLog, helperVars, recreateVars, runtimeVars, ledgerVars, localVars, gateVars,
                   tagGhost, path, calls, preRunImage>>

NextFaults ==
    \/ Next
    \/ \E r \in runs :
          StartFails(r) \/ LedgerWriteFails(r) \/ NotifyFails(r) \/ BookkeepingFails(r)

SpecFaults == Init /\ [][NextFaults]_vars

\* ------------------------------------------------------------------ two runs

\* Two invocations of the Safety-Tagging Protocol for the same standalone
\* container, which exists and carries a mutable tag; scanning is enabled.
InitConc ==
    /\ runs = Runs
    /\ container \in {c \in Containers :
          c.exists /\ c.imageRef = "tag" /\ c.imageIdKnown /\ c.running
          /\ ~c.project /\ ~c.service
          /\ c.options = "optsA" /\ c.networks = 0..1}
    /\ settings \in {st \in Settings : st.scanner /\ st.criteria = "any"}
    /\ InitRun
    /\ aliasCall = NoAliasCall
    /\ stackCall = NoStackCall

NextConc ==
    \E r \in runs : PreambleStep(r) \/ SafetyTaggingStep(r) \/ RecreateStep(r)

SpecConc == InitConc /\ [][NextConc]_vars

\* ------------------------------------------------------------------ successive runs

\* Two invocations of the Safety-Tagging Protocol for the same standalone
\* container, the second after the first has returned: the scan-history
\* store carries over from one to the other.  Scanning is enabled, under any
\* criteria.  The runs are followed up to the call of recreateContainer: a
\* run that replaces the container changes the current image identity.
InitSeq ==
    /\ runs = Runs
    /\ container \in {c \in Containers :
          c.exists /\ c.imageRef = "tag" /\ c.imageIdKnown /\ c.running
          /\ ~c.project /\ ~c.service
          /\ c.options = "optsA" /\ c.networks = {PrimaryNetwork}}
    /\ settings \in {st \in Settings : st.scanner}
    /\ InitRun
    /\ aliasCall = NoAliasCall
    /\ stackCall = NoStackCall

\* Run r may take a step: r2 waits for r1 to return.
Turn(r) == r = "r1" \/ pc["r1"] = "done"

NextSeq ==
    \E r \in runs :
        /\ Turn(r)
        /\ \/ Start(r) \/ FindContainer(r) \/ InspectContainer(r) \/ CheckRegistry(r)
           \/ WriteLocalSkip(r) \/ WriteRegistryErrorSkip(r) \/ WriteUpToDateSkip(r)
           \/ OuterCatch(r) \/ NotifyFailed(r)
           \/ SafetyTaggingStep(r) \/ GateLookupCurrent(r) \/ GateScanCurrent(r)

SpecSeq == InitSeq /\ [][NextSeq]_vars

\* ------------------------------------------------------------------ network aliases

\* Names found in the alias lists of a network endpoint: the container's id
\* (container.id), its first 12 characters (shortContainerId), the compose
\* service (composeService), `${composeProject}-${composeService}`, and a
\* name the user gave.
FullId == "0123456789abcdef"
ShortId == "0123456789ab"
ComposeServiceName == "svc"
ProjectServiceName == "proj-svc"
AliasNames == {FullId, ShortId, ComposeServiceName, ProjectServiceName, "web"}

\* Names the runtime lists in DNSNames: the short id, the service, a name.
DnsNames == {ShortId, ComposeServiceName, "web"}

\* Network names, and the values of hostConfig.NetworkMode ("" when unset).
NetNames == {"bridge", "default", "appnet"}
NetworkModes == {"", "bridge", "appnet"}

SeqsUpTo(S, n) == UNION {[1..k -> S] : k \in 0..n}

\* Array.prototype.includes.
Includes(list, a) == \E i \in 1..Len(list) : list[i] = a

\* Line 826: hostConfig.NetworkMode || 'bridge'.
primaryNetwork(networkMode) == IF networkMode = "" THEN "bridge" ELSE networkMode

\* Lines 843-844.
isPrimary(netName, networkMode) ==
    \/ netName = primaryNetwork(networkMode)
    \/ /\ primaryNetwork(networkMode) = "bridge"
       /\ netName \in {"bridge", "default"}

\* Mutant of secondaryAliases: the container's ids are not filtered out.
secondaryAliasesKeepsIds(Aliases, DNSNames, composeProject, composeService) ==
    LET source == IF Len(Aliases) > 0 THEN Aliases ELSE DNSNames
        withService == IF Includes(source, ComposeServiceName)
                       THEN source ELSE Append(source, ComposeServiceName)
        withBoth == IF Includes(withService, ProjectServiceName)
                    THEN withService ELSE Append(withService, ProjectServiceName)
    IN  IF composeProject /\ composeService THEN withBoth ELSE source

\* Lines 854-865: the alias list reapplied on a secondary network.  An absent
\* Aliases or DNSNames list is the empty one (`?.length > 0`, `|| []`).
secondaryAliases(Aliases, DNSNames, composeProject, composeService) ==
    LET source == IF Len(Aliases) > 0 THEN Aliases ELSE DNSNames
        filtered == SelectSeq(source, LAMBDA a : a # FullId /\ a # ShortId)
        withService == IF Includes(filtered, ComposeServiceName)
                       THEN filtered ELSE Append(filtered, ComposeServiceName)
        withBoth == IF Includes(withService, ProjectServiceName)
                    THEN withService ELSE Append(withService, ProjectServiceName)
    IN  IF composeProject /\ composeService THEN withBoth ELSE filtered

\* The entries of NetworkSettings.Networks and the labels a turn may meet.
AliasInputs ==
    [phase : {"turn"}, netName : NetNames, NetworkMode : NetworkModes,
     Aliases : SeqsUpTo(AliasNames, MaxAliases),
     DNSNames : SeqsUpTo(DnsNames, MaxAliases),
     composeProject : BOOLEAN, composeService : BOOLEAN,
     additionalNetworks : {<<>>}]

\* A state of the run variables in which no run is under way.
NoRun ==
    /\ runs = {}
    /\ container \in {c \in Containers :
          c.exists /\ c.imageRef = "tag" /\ c.imageIdKnown /\ c.running
          /\ c.project /\ c.service
          /\ c.options = "optsA" /\ c.networks = 0..1}
    /\ settings \in {st \in Settings : ~st.scanner /\ st.criteria = "never"}
    /\ InitRun

InitAlias ==
    /\ NoRun
    /\ stackCall = NoStackCall
    /\ aliasCall \in AliasInputs

\* Lines 841-876: one turn of the loop over the networks of the old
\* container; a secondary network is pushed onto additionalNetworks.
AliasTurn ==
    /\ aliasCall.phase = "turn"
    /\ aliasCall' =
          [aliasCall EXCEPT
             !.phase = "done",
             !.additionalNetworks =
                 IF isPrimary(aliasCall.netName, aliasCall.NetworkMode)
                 THEN <<>>
                 ELSE <<[name |-> aliasCall.netName,
                         aliases |-> secondaryAliases(aliasCall.Aliases,
                                        aliasCall.DNSNames,
                                        aliasCall.composeProject,
                                        aliasCall.composeService)]>>]
    /\ UNCHANGED <<runs, composeFile, executionLog, stackCall, runtimeVars, ledgerVars,
                   localVars, gateVars, tagGhost, recreateVars,
                   pc, path, promise, calls, threw, preRunImage>>

NextAlias == AliasTurn

SpecAlias == InitAlias /\ [][NextAlias]_vars

\* ------------------------------------------------------------------ scan-history faults

\* The results whose saveVulnerabilityScan succeeded when at least one of
\* the saves of `results` threw: a shorter list, in the same order.
SavedBeforeFailure(results) ==
    {saved \in ScanResultLists :
        /\ Len(saved) < Len(results)
        /\ \E f \in [1..Len(saved) -> 1..Len(results)] :
              /\ \A i, j \in 1..Len(saved) : i < j => f[i] < f[j]
              /\ \A i \in 1..Len(saved) : saved[i] = results[f[i]]}

\* What the scan-history store holds for an image after the results in
\* `saved` were saved.
StoreAfter(image, saved) ==
    IF saved = <<>> THEN scanStore
    ELSE [scanStore EXCEPT ![image] = {combineScanSummaries(saved)}]

\* Lines 111-159 with a saveVulnerabilityScan of the new image's results
\* that throws: the catch of 153-155 logs a warning and the gate goes on.
GateScanNewSaveFails(r) ==
    /\ pc[r] = "g_scan"
    /\ Called(r, {"scanImage"})
    /\ threw' = [threw EXCEPT ![r] = @ \cup {"saveVulnerabilityScan"}]
    /\ \E results \in ScanResultLists \ {<<>>} :
          LET sum == combineScanSummaries(results) IN
          /\ scanResults' = [scanResults EXCEPT ![r] = {Len(results)}]
          /\ \E saved \in SavedBeforeFailure(results) :
                scanStore' = StoreAfter(newImageId[r], saved)
          /\ IF vulnerabilityCriteria[r] = "more_than_current"
             THEN /\ scanSummary' = [scanSummary EXCEPT ![r] = {sum}]
                  /\ Goto(r, "g_lookup")
                  /\ UNCHANGED <<currentScanSummary, scanOutcome, gateApproved>>
             ELSE Decide(r, sum, {}, TRUE)
    /\ UNCHANGED <<runs, composeFile, executionLog, helperVars, recreateVars, settings, container,
                   tag, tempTag, ledgerVars, localVars, currentScanResults,
                   tagGhost, path, promise, preRunImage>>

\* Mutant of GateLookupCurrentFails: the exception leaves scanAndCheckBlock.
GateLookupCurrentFailsAborts(r) ==
    /\ pc[r] = "g_lookup"
    /\ Called(r, {"getCombinedScanForImage"})
    /\ Raise(r, "getCombinedScanForImage")
    /\ UNCHANGED <<runs, composeFile, executionLog, helperVars, recreateVars, runtimeVars, ledgerVars,
                   localVars, gateVars, tagGhost, path, promise, preRunImage>>

\* Lines 161-200 with a getCombinedScanForImage that throws: the catch of
\* 198-200 logs a warning, the current image is not scanned, and the verdict
\* is taken without a summary of the current image.
GateLookupCurrentFails(r) ==
    /\ pc[r] = "g_lookup"
    /\ Called(r, {"getCombinedScanForImage"})
    /\ threw' = [threw EXCEPT ![r] = @ \cup {"getCombinedScanForImage"}]
    /\ \E new \in scanSummary[r] : Decide(r, new, {}, TRUE)
    /\ UNCHANGED <<runs, composeFile, executionLog, helperVars, recreateVars, runtimeVars, ledgerVars,
                   localVars, scanResults, currentScanResults, tagGhost, path,
                   promise, preRunImage>>

\* Lines 166-196 with a saveVulnerabilityScan of the current image's results
\* that throws: the catch of 194 ignores it.
GateScanCurrentSaveFails(r) ==
    /\ pc[r] = "g_scancur"
    /\ Called(r, {"scanImage(current)"})
    /\ threw' = [threw EXCEPT ![r] = @ \cup {"saveVulnerabilityScan"}]
    /\ \E new \in scanSummary[r] :
          \E results \in ScanResultLists \ {<<>>} :
             /\ currentScanResults' = [currentScanResults EXCEPT ![r] = {Len(results) > 0}]
             /\ \E saved \in SavedBeforeFailure(results) :
                   scanStore' = StoreAfter(currentImageId[r], saved)
             /\ Decide(r, new, {combineScanSummaries(results)}, TRUE)
    /\ UNCHANGED <<runs, composeFile, executionLog, helperVars, recreateVars, settings, container,
                   tag, tempTag, ledgerVars, localVars, scanResults,
                   tagGhost, path, promise, preRunImage>>

\* One run on a container with a mutable tag, attached to its primary
\* network only, with scanning enabled, under every criteria, without compose
\* labels or with both.
InitStore ==
    /\ runs = {"r1"}
    /\ container \in {c \in Containers :
          c.exists /\ c.imageRef = "tag" /\ c.imageIdKnown /\ c.running
          /\ c.project = c.service
          /\ c.options = "optsA" /\ c.networks = {PrimaryNetwork}}
    /\ settings \in {st \in Settings : st.scanner}
    /\ InitRun
    /\ aliasCall = NoAliasCall
    /\ stackCall = NoStackCall

\* The steps of such a run: every step of Next but the early returns on the
\* container and its image reference, the pull without a scan and the
\* reconnection of secondary networks.
NextStore ==
    \E r \in runs :
        \/ Start(r) \/ FindContainer(r) \/ InspectContainer(r) \/ CheckRegistry(r)
        \/ WriteLocalSkip(r) \/ WriteRegistryErrorSkip(r) \/ WriteUpToDateSkip(r)
        \/ OuterCatch(r) \/ NotifyFailed(r)
        \/ ComposeStep(r) \/ SafetyTaggingStep(r)
        \/ RcFind(r) \/ RcStop(r) \/ RcRemove(r) \/ RcCreate(r) \/ RcStart(r)
        \/ WriteSuccess(r) \/ NotifySuccess(r)
        \/ GateLookupCurrent(r) \/ GateScanCurrent(r)
        \/ GateScanNewSaveFails(r) \/ GateLookupCurrentFails(r)
        \/ GateScanCurrentSaveFails(r)

SpecStore == InitStore /\ [][NextStore]_vars

\* ------------------------------------------------------------------ updateStackContainer

\* The arguments of a call (lines 918-924); envId and composeConfigPath are
\* optional.
StackNames == {"shop", "blog"}
ServiceNames == {"web", "db"}
EnvIds == {"undefined", "env1", "env2"}
ComposeConfigPaths == {"undefined", "/stacks/compose.yaml"}

\* Answers of getStackComposeFile: success, and the content (absent, the
\* empty string, or text).
ComposeResults == [success : BOOLEAN, content : {"absent", "empty", "text"}]

StackInputs ==
    [phase : {"lookup"}, stackName : StackNames, serviceName : ServiceNames,
     envId : EnvIds, composeConfigPath : ComposeConfigPaths,
     composeResult : {{}}, applied : {{}}, result : {{}}, threw : {{}},
     returned : {{}}]

InitStack ==
    /\ NoRun
    /\ aliasCall = NoAliasCall
    /\ stackCall \in StackInputs

\* updateStackContainer returns `value`.
StackReturn(call, value) == [call EXCEPT !.phase = "returned", !.returned = {value}]

\* Collaborator call `name` throws inside the try: the catch of 946-949
\* returns false.
StackCatch(call, name) ==
    StackReturn([call EXCEPT !.threw = @ \cup {name}], FALSE)

\* Line 930: !composeResult.success || !composeResult.content.
NoComposeFile(composeResult) ==
    ~composeResult.success \/ composeResult.content \in {"absent", "empty"}

\* Mutant of AfterStackLookup: the content of the compose file is not tested.
AfterStackLookupNoContentTest(call, composeResult) ==
    IF ~composeResult.success
    THEN StackReturn([call EXCEPT !.composeResult = {composeResult}], FALSE)
    ELSE [call EXCEPT !.composeResult = {composeResult}, !.phase = "apply"]

\* Lines 930-934: return false without a resolved compose file with content.
AfterStackLookup(call, composeResult) ==
    IF NoComposeFile(composeResult)
    THEN StackReturn([call EXCEPT !.composeResult = {composeResult}], FALSE)
    ELSE [call EXCEPT !.composeResult = {composeResult}, !.phase = "apply"]

\* Lines 925-934: getStackComposeFile answers or throws.
StackLookup ==
    /\ stackCall.phase = "lookup"
    /\ \/ \E composeResult \in ComposeResults :
             stackCall' = AfterStackLookup(stackCall, composeResult)
       \/ stackCall' = StackCatch(stackCall, "getStackComposeFile")
    /\ UNCHANGED <<runs, composeFile, executionLog, aliasCall, runtimeVars, ledgerVars,
                   localVars, gateVars, tagGhost, recreateVars,
                   pc, path, promise, calls, threw, preRunImage>>

\* Lines 936-949: updateStackService reports success or failure, or throws.
StackApply ==
    /\ stackCall.phase = "apply"
    /\ LET called == [stackCall EXCEPT !.applied =
                         {[stackName |-> stackCall.stackName,
                           serviceName |-> stackCall.serviceName,
                           envId |-> stackCall.envId,
                           composeConfigPath |-> stackCall.composeConfigPath]}]
       IN  \/ \E success \in BOOLEAN :
                 stackCall' = StackReturn([called EXCEPT !.result = {success}], success)
           \/ stackCall' = StackCatch(called, "updateStackService")
    /\ UNCHANGED <<runs, composeFile, executionLog, aliasCall, runtimeVars, ledgerVars,
                   localVars, gateVars, tagGhost, recreateVars,
                   pc, path, promise, calls, threw, preRunImage>>

NextStack == StackLookup \/ StackApply

SpecStack == InitStack /\ [][NextStack]_vars

\* ------------------------------------------------------------------ claims

Started(r) == pc[r] # "start"

Done(r) == pc[r] = "done"

\* C1 (as stated): once a run has started, the image the container runs is
\* the pre-run image or one the gate approved in this run.
C1_OnlyGatedImages ==
    \A r \in runs :
        (Started(r) /\ container.exists)
            => (container.image = preRunImage[r] \/ container.image \in gateApproved[r])

\* C1 (amended): with scanning enabled, the image the container runs is the
\* pre-run image or one the gate approved in this run, and the container is
\* created or the compose service applied only after the gate allowed the
\* update; with scanning disabled the gate is not consulted.
C1_OnlyGatedImagesWhenScanning ==
    \A r \in runs :
        (Started(r) /\ shouldScan[r])
            => /\ container.exists
                    => (container.image = preRunImage[r]
                        \/ container.image \in gateApproved[r])
               /\ (calls[r] \cap {"createContainer", "updateStackService"} # {})
                    => (scanOutcome[r] = "allowed" /\ tag \in gateApproved[r])

C1_Witness ==
    \E r \in runs :
        /\ shouldScan[r] /\ container.exists
        /\ container.image = NewImage /\ NewImage \in gateApproved[r]
        /\ container.image # preRunImage[r]

\* C2: a standalone run with scanning that ends blocked leaves the original
\* repository:tag pair on the image the container ran before the run.
C2_BlockedKeepsOriginalTag ==
    \A r \in runs :
        (Done(r) /\ path[r] = "standalone" /\ shouldScan[r]
         /\ scanOutcome[r] = "blocked" /\ execStatus[r] = "skipped")
            => tag = preRunImage[r]

C2_Witness ==
    \E r \in runs :
        /\ Done(r) /\ path[r] = "standalone" /\ shouldScan[r]
        /\ scanOutcome[r] = "blocked" /\ execStatus[r] = "skipped"
        /\ "pullImage" \in calls[r] /\ tag = OldImage

StandaloneSuccess(r) ==
    Done(r) /\ path[r] = "standalone" /\ execStatus[r] = "success"

\* C3 (as stated): after a standalone success the original tag resolves to
\* the new image and no temporary tag remains.
C3_PromotedAndNoTempTag ==
    \A r \in runs :
        StandaloneSuccess(r) => (tag = NewImage /\ tempTag = NoImage)

\* C3 (amended): after a standalone success the original tag resolves to the
\* new image, and the temporary tag is gone unless its removal threw.
C3_PromotedAndTempTagRemovedUnlessRemovalFailed ==
    \A r \in runs :
        StandaloneSuccess(r)
            => /\ tag = NewImage
               /\ (tempTag = NoImage \/ "removeTempImage" \in threw[r])

C3_Witness ==
    \E r \in runs :
        /\ StandaloneSuccess(r) /\ shouldScan[r]
        /\ "removeTempImage" \in calls[r] /\ "removeTempImage" \notin threw[r]
        /\ tempTag = NoImage /\ tag = NewImage

\* C4: the tag-mutating calls of two runs never interleave: a run that has
\* begun tagging makes its next tag-mutating call only if no other run made
\* one in between.
C4_NoInterleavedTagging ==
    [][\A r \in runs :
          (tagSteps'[r] > tagSteps[r] /\ tagSteps[r] > 0) => lastTagger = r]_vars

\* C5: the promise returned by runContainerUpdate never rejects.
C5_NeverRejects == \A r \in runs : promise[r] # "rejected"

\* C6: a run applies at most one terminal status write, and exactly one when
\* it returns.
C6_SingleTerminalWrite ==
    \A r \in runs :
        /\ termWrites[r] <= 1
        /\ (Done(r) /\ promise[r] = "resolved") => termWrites[r] = 1

\* C7: a run in which the gate returned blocked ends skipped, with exactly
\* one blocked notification, no other notification, and no recreation or
\* compose apply.
C7_BlockedEndsSkipped ==
    \A r \in runs :
        (Done(r) /\ scanOutcome[r] = "blocked")
            => /\ execStatus[r] = "skipped"
               /\ notifs[r] = [blocked |-> 1, success |-> 0, failed |-> 0]
               /\ calls[r] \cap (RecreateCalls \cup {"updateStackService"}) = {}

\* C8: a run that ends failed has sent a failure notification.
C8_FailedNotifies ==
    \A r \in runs :
        (Done(r) /\ execStatus[r] = "failed") => notifs[r].failed >= 1

\* C9: once the registry check answered hasUpdate = false, the run makes no
\* pull, tag, temp-image removal, container or compose-apply call, only the
\* skipped write is left, and it ends skipped.
C9_NoUpdateSkips ==
    \A r \in runs :
        (registryCheck[r].returned /\ ~registryCheck[r].hasUpdate)
            => /\ calls[r] \cap MutatingCalls = {}
               /\ pc[r] \in {"w_local", "w_regerr", "w_uptodate", "done"}
               /\ Done(r) => execStatus[r] = "skipped"

C9_Witness ==
    \E r \in runs :
        /\ Done(r) /\ registryCheck[r].returned
        /\ ~registryCheck[r].hasUpdate /\ ~registryCheck[r].isLocalImage
        /\ ~registryCheck[r].error /\ execStatus[r] = "skipped"

\* C10: a run that read a digest-pinned image reference never queries the
\* registry and ends skipped.
C10_DigestPinnedSkips ==
    \A r \in runs :
        isDigestBasedImage(imageRef[r])
            => /\ "checkImageUpdateAvailable" \notin calls[r]
               /\ pc[r] \in {"w_system", "w_digest", "done"}
               /\ Done(r) => execStatus[r] = "skipped"

C10_Witness ==
    \E r \in runs :
        Done(r) /\ imageRef[r] = "digest" /\ execStatus[r] = "skipped"

\* The rollback call of the blocked branch threw: removeTempImage on the
\* standalone path (line 654), tagImage of the old identity on the compose
\* path (line 508).
RollbackFailed(r) ==
    \/ path[r] = "standalone" /\ "removeTempImage" \in threw[r]
    \/ path[r] = "compose" /\ "tagImage" \in threw[r]

\* C11: a run in which the gate blocked and the rollback step then failed
\* still ends skipped, with the blocked notification and not failed.
C11_RollbackFailureKeepsSkipped ==
    \A r \in runs :
        (Done(r) /\ scanOutcome[r] = "blocked" /\ RollbackFailed(r))
            => (execStatus[r] = "skipped" /\ notifs[r].blocked = 1)

\* A step 1-4 of the Safety-Tagging Protocol threw: the run took the
\* standalone scan flow and a pull, resolve or tag call failed before the
\* gate was entered.
EarlyStepFailed(r) ==
    /\ path[r] = "standalone" /\ shouldScan[r]
    /\ "scanImage" \notin calls[r]
    /\ threw[r] \cap {"pullImage", "getImageIdByTag", "tagImage"} # {}

\* C12: a run whose step 1-4 failed ends failed, stops, removes and creates
\* no container, and leaves the original reference on the pre-run image.
C12_EarlyFailureAbortsCleanly ==
    \A r \in runs :
        (Done(r) /\ EarlyStepFailed(r))
            => /\ execStatus[r] = "failed"
               /\ calls[r] \cap RecreateCalls = {}
               /\ tag = preRunImage[r]

\* C13: a compose run in which the gate blocked ends skipped, with the
\* reference back on the pre-run image and no compose apply.
C13_ComposeBlockedRestoresTag ==
    \A r \in runs :
        (Done(r) /\ path[r] = "compose" /\ scanOutcome[r] = "blocked")
            => /\ tag = preRunImage[r]
               /\ execStatus[r] = "skipped"
               /\ "updateStackService" \notin calls[r]

\* The scanner returned no results for the new image.
NoScanResults(r) == scanResults[r] = {0}

\* C15: when scanImage returns no results for the new image the gate allows
\* the update whatever the criteria, saves nothing, neither looks up nor
\* scans the current image, and the caller goes on to the promotion
\* (standalone) or the compose apply.
C15_NoResultsAllows ==
    \A r \in runs :
        NoScanResults(r)
            => /\ scanOutcome[r] = "allowed"
               /\ scanStore[newImageId[r]] = {}
               /\ calls[r] \cap {"getCombinedScanForImage", "scanImage(current)"} = {}
               /\ pc[r] \notin GatePcs \cup {"sa_rmblocked", "w_sa_blocked", "n_sa_blocked",
                                             "co_restore", "w_co_blocked", "n_co_blocked",
                                             "sa_scanerr", "w_sa_scanfail", "co_scanerr",
                                             "w_co_scanfail"}
               /\ (Done(r) /\ threw[r] = {}) => execStatus[r] = "success"
               /\ (Done(r) /\ execStatus[r] = "success")
                     => (container.image = newImageId[r]
                         /\ calls[r] \cap {"createContainer", "updateStackService"} # {})

C15_Witness ==
    \E r \in runs :
        /\ NoScanResults(r) /\ vulnerabilityCriteria[r] = "more_than_current"
        /\ Done(r) /\ execStatus[r] = "success" /\ container.image = NewImage

\* Calls of recreateContainer whose failure is fatal to it.
FatalRecreateCalls == {"stopContainer", "removeContainer", "createContainer", "startContainer"}

\* C16: recreateContainer returns to its caller with true or false; true
\* only when no fatal call threw and the new container was created on the
\* reference and, if the original was running, started; false whenever the
\* container was not found or a fatal call threw.
C16_RecreateReturnsBoolean ==
    \A r \in runs :
        /\ recreateResult[r] = "true"
              => /\ threw[r] \cap (FatalRecreateCalls \cup {"recreateContainer"}) = {}
                 /\ "createContainer" \in calls[r]
                 /\ container.exists /\ container.image = tag
                 /\ wasRunning[r] => container.running
        /\ (threw[r] \cap (FatalRecreateCalls \cup {"recreateContainer"}) # {})
              => (recreateResult[r] = "false" /\ pc[r] \in {"catch", "n_catch", "done"})
        /\ ("recreateContainer" \in calls[r] /\ Done(r))
              => (recreateResult[r] \in {"true", "false"} /\ promise[r] = "resolved")

C16_Witness ==
    \E r \in runs :
        /\ recreateResult[r] = "true" /\ wasRunning[r] /\ container.running
        /\ container.image = NewImage /\ "startContainer" \in calls[r]

\* C17: whatever connect calls fail, every secondary network of the snapshot
\* is attempted, the new container is started if the original was running,
\* and recreateContainer returns true.
C17_NetworkFailuresNotFatal ==
    \A r \in runs :
        /\ recreateResult[r] = "true"
              => /\ netTodo[r] = {}
                 /\ \A d \in inspectData[r] :
                       additionalNetworks(d)
                          = (container.networks \ {PrimaryNetwork}) \cup netFailed[r]
                 /\ wasRunning[r] => container.running
        /\ (netFailed[r] # {} /\ pc[r] # "rc_connect") => netTodo[r] = {}
        /\ (netFailed[r] # {} /\ Done(r) /\ "startContainer" \notin threw[r])
              => recreateResult[r] = "true"

C17_Witness ==
    \E r \in runs :
        /\ recreateResult[r] = "true" /\ netFailed[r] = {1}
        /\ 2 \in container.networks /\ wasRunning[r] /\ container.running

\* C18: a successful recreation made one createContainer call, and the new
\* container carries the settings of the snapshot taken before the old
\* container was stopped and removed.
C18_CreatedFromSnapshot ==
    \A r \in runs :
        /\ createCount[r] <= 1
        /\ (calls[r] \cap {"stopContainer", "removeContainer", "createContainer"} # {})
              => inspectData[r] # {}
        /\ recreateResult[r] = "true"
              => /\ createCount[r] = 1
                 /\ \A d \in inspectData[r] :
                       /\ d.options \in Options
                       /\ container.options = d.options
                       /\ PrimaryNetwork \in container.networks

C18_Witness ==
    \E r \in runs :
        /\ recreateResult[r] = "true" /\ createCount[r] = 1
        /\ container.options = "optsB" /\ "removeContainer" \in calls[r]

\* C19: a standalone run without scanning in which the pull was made and no
\* call threw ends success, with the reference on the new image and one
\* notification, of kind success.
C19_NoScanHappyPath ==
    \A r \in runs :
        (Done(r) /\ path[r] = "standalone" /\ ~shouldScan[r]
         /\ "pullImage" \in calls[r] /\ threw[r] = {})
            => /\ execStatus[r] = "success"
               /\ tag = NewImage
               /\ notifs[r] = [blocked |-> 0, success |-> 1, failed |-> 0]

C19_Witness ==
    \E r \in runs :
        /\ Done(r) /\ path[r] = "standalone" /\ ~shouldScan[r] /\ ~isStackContainer[r]
        /\ registryCheck[r].hasUpdate /\ threw[r] = {}
        /\ execStatus[r] = "success" /\ container.image = NewImage

\* C20: a run that has ended leaves its ExecutionRecord, if it was created,
\* in status success, failed or skipped, never in status running.
C20_EndsTerminal ==
    \A r \in runs :
        (Done(r) /\ execStatus[r] # "none") => execStatus[r] \in Terminal

\* C21: once the registry check answered with an error, whatever it says of
\* hasUpdate, the run makes no pull, tag or container call, sends no
\* notification and ends skipped; the terminal write is the local-image one
\* when the answer also says isLocalImage, the registry-error one otherwise,
\* and the up-to-date one only for an answer without error.
C21_RegistryErrorSkips ==
    \A r \in runs :
        (registryCheck[r].returned /\ registryCheck[r].error)
            => /\ calls[r] \cap MutatingCalls = {}
               /\ notifs[r] = NoNotifs
               /\ pc[r] = IF Done(r) THEN "done"
                          ELSE IF registryCheck[r].isLocalImage THEN "w_local"
                          ELSE "w_regerr"
               /\ Done(r) => /\ execStatus[r] = "skipped"
                             /\ writeSite[r] = IF registryCheck[r].isLocalImage
                                               THEN "w_local" ELSE "w_regerr"

C21_Witness ==
    \E r \in runs :
        /\ Done(r) /\ registryCheck[r].returned /\ registryCheck[r].error
        /\ registryCheck[r].hasUpdate /\ ~registryCheck[r].isLocalImage
        /\ execStatus[r] = "skipped" /\ writeSite[r] = "w_regerr"

ComposeCalls == {"pullStackService", "updateStackService"}

\* C22: a run calls the compose pull or apply only for a container with both
\* compose labels whose compose file getStackComposeFile resolved; a run
\* whose compose file was not resolved takes the standalone path, calls
\* neither, and when it ends success it has called pullImage and
\* recreateContainer; no run calls both pullStackService and pullImage, and
\* no run calls both a compose call and recreateContainer.
C22_OneUpdatePath ==
    \A r \in runs :
        /\ calls[r] \cap ComposeCalls # {}
              => /\ container.project /\ container.service
                 /\ "getStackComposeFile" \in calls[r] \ threw[r]
                 /\ composeFile[r] = "resolved"
                 /\ path[r] = "compose"
        /\ composeFile[r] = "unresolved"
              => /\ calls[r] \cap ComposeCalls = {}
                 /\ path[r] = "standalone"
                 /\ (Done(r) /\ execStatus[r] = "success")
                       => {"pullImage", "recreateContainer"} \subseteq calls[r]
        /\ ~({"pullStackService", "pullImage"} \subseteq calls[r])
        /\ ~("recreateContainer" \in calls[r] /\ calls[r] \cap ComposeCalls # {})

C22_Witness ==
    \E r \in runs :
        /\ Done(r) /\ container.project /\ container.service
        /\ composeFile[r] = "unresolved" /\ execStatus[r] = "success"
        /\ "pullImage" \in calls[r] /\ "recreateContainer" \in calls[r]

\* C23: a run that inspected a container with an updatable image reference
\* but without a current image identity (inspectData.Image absent) makes no
\* registry query, pull or tag call and ends failed.
C23_MissingImageIdFails ==
    \A r \in runs :
        (imageRef[r] = "tag" /\ currentImageId[r] = NoImage)
            => /\ calls[r] \cap ({"checkImageUpdateAvailable"} \cup TagCalls) = {}
               /\ Done(r) => execStatus[r] = "failed"

\* The run is in the Safety-Tagging Protocol and the gate has not approved.
BeforeApproval(r) ==
    path[r] = "standalone" /\ shouldScan[r] /\ scanOutcome[r] # "allowed"

\* C24 as stated: in the Safety-Tagging Protocol the original
\* repository:tag pair resolves to the pre-run image identity in every state
\* before the gate has approved the new image.
C24_TagUntouchedBeforeApproval ==
    \A r \in runs : BeforeApproval(r) => tag = preRunImage[r]

\* C24: in the Safety-Tagging Protocol, before the gate has approved the new
\* image, the original repository:tag pair resolves to the pre-run image
\* identity except while the pull is the only tag change of the run that
\* took effect: from the pull until the old tag is restored, and for good when
\* the re-resolution or the restore fails.
C24_TagRestoredBeforeApproval ==
    \A r \in runs :
        (BeforeApproval(r) /\ tagSteps[r] # 1) => tag = preRunImage[r]

C24_Witness ==
    \E r \in runs :
        /\ BeforeApproval(r) /\ Done(r) /\ scanOutcome[r] = "blocked"
        /\ tagSteps[r] >= 2 /\ newImageId[r] = NewImage /\ tag = OldImage

\* C25: on the standalone path, at every position of the gate (from the
\* scan of the new image to the verdict) the original repository:tag pair
\* resolves to the pre-run image identity, not to the new image, and the
\* temporary tag resolves to the new image: the pull, the restore of the old
\* tag and the temporary tagging have all taken effect.
C25_GateRunsOnTempTag ==
    \A r \in runs :
        (pc[r] \in GatePcs /\ path[r] = "standalone")
            => /\ tag = preRunImage[r]
               /\ tag # newImageId[r]
               /\ tempTag = newImageId[r]
               /\ newImageId[r] = NewImage
               /\ tagSteps[r] = 3

C25_Witness ==
    \E r \in runs :
        /\ pc[r] = "g_scancur" /\ path[r] = "standalone"
        /\ "scanImage" \in calls[r] /\ tempTag = NewImage /\ tag = OldImage

\* C26: a run on the standalone path that goes on to recreateContainer has
\* re-resolved the image identity of the reference after the pull, and a run
\* whose re-resolution failed calls no stop, remove or create and ends
\* failed, with or without scanning.
C26_AlwaysReResolves ==
    \A r \in runs :
        path[r] = "standalone"
            => /\ "recreateContainer" \in calls[r]
                     => "getImageIdByTag" \in calls[r] \ threw[r]
               /\ "getImageIdByTag" \in threw[r]
                     => /\ calls[r] \cap RecreateCalls = {}
                        /\ Done(r) => execStatus[r] = "failed"

\* The scan of the new image threw on the standalone path and the run ended.
ScannerFailed(r) ==
    Done(r) /\ path[r] = "standalone" /\ "scanImage" \in threw[r]

\* C27 as stated: after a scanner failure on the standalone path the
\* temporary-tagged image is gone, the run is failed, no container was
\* stopped, removed or created and the original repository:tag pair resolves
\* to the pre-run image identity.
C27_ScannerFailureDeletesTemp ==
    \A r \in runs :
        ScannerFailed(r)
            => /\ tempTag = NoImage
               /\ execStatus[r] = "failed"
               /\ calls[r] \cap RecreateCalls = {}
               /\ tag = preRunImage[r]

\* C27: after a scanner failure on the standalone path the run has called
\* removeTempImage and the temporary-tagged image is gone unless that call
\* threw; the run is failed, no container was stopped, removed or created and
\* the original repository:tag pair resolves to the pre-run image identity.
C27_ScannerFailureTriesToDeleteTemp ==
    \A r \in runs :
        ScannerFailed(r)
            => /\ "removeTempImage" \in calls[r]
               /\ tempTag = NoImage \/ "removeTempImage" \in threw[r]
               /\ execStatus[r] = "failed"
               /\ calls[r] \cap RecreateCalls = {}
               /\ tag = preRunImage[r]

C27_Witness ==
    \E r \in runs :
        /\ ScannerFailed(r) /\ tempTag = NoImage /\ threw[r] = {"scanImage"}
        /\ execStatus[r] = "failed" /\ writeSite[r] = "w_sa_scanfail"

\* C28: on the compose path the scan of the new image is made only after
\* pullStackService returned; updateStackService is called only after
\* pullStackService returned and, when scanning is enabled, after the gate
\* returned blocked=false; the run is never about to apply a second time; and
\* after a failed pull the run neither scans nor applies and ends failed.
C28_ComposePullGateApply ==
    \A r \in runs :
        /\ (path[r] = "compose" /\ "scanImage" \in calls[r])
              => "pullStackService" \in calls[r] \ threw[r]
        /\ "updateStackService" \in calls[r]
              => /\ "pullStackService" \in calls[r] \ threw[r]
                 /\ shouldScan[r] => scanOutcome[r] = "allowed"
                 /\ pc[r] # "co_up"
        /\ "pullStackService" \in threw[r]
              => /\ calls[r] \cap {"scanImage", "updateStackService"} = {}
                 /\ scanOutcome[r] = "none"
                 /\ Done(r) => execStatus[r] = "failed"

C28_Witness ==
    \E r \in runs :
        /\ Done(r) /\ path[r] = "compose" /\ shouldScan[r]
        /\ scanOutcome[r] = "allowed" /\ "updateStackService" \in calls[r] \ threw[r]
        /\ execStatus[r] = "success"

\* C30: recreateContainer stops only a container that was running, removes
\* after the stop returned (when there was one), creates after the remove
\* returned, connects secondary networks after the create returned and before
\* any start, starts only a container that was running and only when no
\* secondary network is left to attempt; when it returns true the new
\* container was started if and only if the old one was running.
C30_RecreateCallOrder ==
    \A r \in runs :
        LET ok == calls[r] \ threw[r] IN
        /\ "stopContainer" \in calls[r] => wasRunning[r]
        /\ "removeContainer" \in calls[r]
              => (wasRunning[r] <=> "stopContainer" \in ok)
        /\ "createContainer" \in calls[r] => "removeContainer" \in ok
        /\ "connectContainerToNetwork" \in calls[r] => "createContainer" \in ok
        /\ pc[r] = "rc_connect" => "startContainer" \notin calls[r]
        /\ "startContainer" \in calls[r]
              => /\ wasRunning[r]
                 /\ "createContainer" \in ok
                 /\ netTodo[r] = {}
        /\ recreateResult[r] = "true"
              => /\ wasRunning[r] <=> "startContainer" \in ok
                 /\ netTodo[r] = {}

C30_Witness ==
    \E r \in runs :
        /\ recreateResult[r] = "true" /\ wasRunning[r]
        /\ {"stopContainer", "removeContainer", "createContainer",
            "connectContainerToNetwork", "startContainer"} \subseteq calls[r]
        /\ container.running

CurrentImageCalls == {"getCombinedScanForImage", "scanImage(current)"}

\* The on-demand scan of the current image returned results in run q.
ScannedCurrent(q) ==
    "scanImage(current)" \in calls[q] \ threw[q] /\ currentScanResults[q] = {TRUE}

\* C29: the current image is looked up or scanned only under the criteria
\* more_than_current, and scanned only after a lookup that found no cached
\* scan for its identity; an on-demand scan that returned results leaves a
\* cached scan for that identity; and the run that follows r1 and evaluates
\* the gate for a current image identity r1 scanned with results does not
\* scan it again.
C29_CurrentScanCached ==
    \A r \in runs :
        /\ calls[r] \cap CurrentImageCalls # {}
              => vulnerabilityCriteria[r] = "more_than_current"
        /\ pc[r] = "g_scancur"
              => /\ scanStore[currentImageId[r]] = {}
                 /\ "getCombinedScanForImage" \in calls[r]
        /\ "scanImage(current)" \in calls[r]
              => "getCombinedScanForImage" \in calls[r]
        /\ ScannedCurrent(r) => scanStore[currentImageId[r]] # {}
        /\ (r # "r1" /\ ScannedCurrent("r1") /\ Done("r1") /\ imageRef[r] # "unread"
            /\ currentImageId[r] = currentImageId["r1"])
              => /\ "scanImage(current)" \notin calls[r]
                 /\ pc[r] # "g_scancur"

C29_Witness ==
    /\ ScannedCurrent("r1") /\ Done("r1")
    /\ currentImageId["r2"] = currentImageId["r1"]
    /\ "getCombinedScanForImage" \in calls["r2"]
    /\ "scanImage(current)" \notin calls["r2"]
    /\ scanOutcome["r2"] # "none"

\* The list with the container's full id and short id removed.
RECURSIVE WithoutIds(_)
WithoutIds(list) ==
    IF list = <<>> THEN <<>>
    ELSE IF Head(list) \in {FullId, ShortId} THEN WithoutIds(Tail(list))
    ELSE <<Head(list)>> \o WithoutIds(Tail(list))

\* `out` is `existing` without the container's ids, in order, followed, for a
\* container with both compose labels, by those of the service name and the
\* <project>-<service> alias that `existing` lacks, each once.
ReappliedFrom(existing, out, labelled) ==
    LET base == WithoutIds(existing)
        n == Len(base)
    IN  /\ Len(out) >= n
        /\ \A i \in 1..n : out[i] = base[i]
        /\ \A i \in (n + 1)..Len(out) :
              /\ labelled
              /\ out[i] \in {ComposeServiceName, ProjectServiceName}
              /\ ~Includes(base, out[i])
              /\ \A j \in (n + 1)..Len(out) : out[j] = out[i] => j = i
        /\ labelled => Includes(out, ComposeServiceName) /\ Includes(out, ProjectServiceName)

\* The turn of the loop is over.
AliasDone == aliasCall.phase = "done"

AliasLabelled == aliasCall.composeProject /\ aliasCall.composeService

\* The primary network (hostConfig.NetworkMode, "bridge" when unset) is
\* never in the reconnect list, and a network that is neither it nor one of
\* the names of the default bridge is.
ReconnectList ==
    /\ \A i \in 1..Len(aliasCall.additionalNetworks) :
          /\ aliasCall.additionalNetworks[i].name = aliasCall.netName
          /\ aliasCall.additionalNetworks[i].name # primaryNetwork(aliasCall.NetworkMode)
    /\ aliasCall.netName \notin {"bridge", "default", aliasCall.NetworkMode}
          => Len(aliasCall.additionalNetworks) = 1

\* C31 (as stated): the alias list reapplied on a non-primary network is the
\* network's Aliases list without the container's full and short id, plus,
\* for a container with compose project and service labels, the service name
\* and the <project>-<service> alias where absent; the primary network is
\* not in the reconnect list.
C31_AliasesFromAliases ==
    AliasDone =>
        /\ ReconnectList
        /\ \A i \in 1..Len(aliasCall.additionalNetworks) :
              ReappliedFrom(aliasCall.Aliases,
                            aliasCall.additionalNetworks[i].aliases, AliasLabelled)

\* C31 (amended): the alias list reapplied on a non-primary network is the
\* network's Aliases list, or its DNSNames list when Aliases is absent or
\* empty, without the container's full and short id, plus, for a container
\* with compose project and service labels, the service name and the
\* <project>-<service> alias where absent; the primary network is not in the
\* reconnect list.
C31_AliasesFromAliasesOrDnsNames ==
    AliasDone =>
        /\ ReconnectList
        /\ \A i \in 1..Len(aliasCall.additionalNetworks) :
              ReappliedFrom(IF aliasCall.Aliases # <<>> THEN aliasCall.Aliases
                            ELSE aliasCall.DNSNames,
                            aliasCall.additionalNetworks[i].aliases, AliasLabelled)

\* A labelled container's secondary network whose list holds an id and the
\* service name has been given its alias list.
C31_Witness ==
    /\ AliasDone
    /\ AliasLabelled
    /\ Len(aliasCall.additionalNetworks) = 1
    /\ aliasCall.Aliases = <<ComposeServiceName, FullId>>
    /\ aliasCall.additionalNetworks[1].aliases = <<ComposeServiceName, ProjectServiceName>>

\* C32: the last-updated bookkeeping is written only in runs that end with
\* status success, before the success write and the success notification;
\* a run that has ended skipped or failed has not written it.  Stated for
\* the runs whose ledger writes were all applied.
C32_LastUpdatedOnlyOnSuccess ==
    \A r \in runs :
        /\ execStatus[r] = "success" => lastUpdated[r]
        /\ notifs[r].success > 0 => lastUpdated[r]
        /\ (Done(r) /\ lastUpdated[r] /\ "updateScheduleExecution" \notin threw[r])
              => execStatus[r] = "success"

\* C33: when the removal of the temporary tag fails after the promotion, the
\* run goes on to recreation and the execution log has a line for the failed
\* removal.
C33_FailedRemovalLogged ==
    \A r \in runs :
        ("Re-tagging approved image" \in executionLog[r]
         /\ "removeTempImage" \in threw[r])
            => /\ pc[r] \notin {"sa_pullerr", "catch"}
               /\ "Failed to remove temporary tag" \in executionLog[r]

\* C34: a run on a container whose image is the management software or its
\* agent makes no registry query and no pull, tag or container change, sends
\* no notification, and ends skipped by the system-container return, which
\* comes before the digest test.
C34_SystemContainerSkipped ==
    \A r \in runs :
        isSystemContainer(imageRef[r]) =>
            /\ pc[r] \in {"w_system", "done"}
            /\ calls[r] \cap ({"checkImageUpdateAvailable"} \cup MutatingCalls) = {}
            /\ notifs[r] = NoNotifs
            /\ container.image = preRunImage[r] /\ tag = OldImage
            /\ Done(r) => execStatus[r] = "skipped" /\ writeSite[r] = "w_system"

\* A run on a digest-pinned system image has ended.
C34_Witness ==
    \E r \in runs :
        /\ imageRef[r] = "system_digest"
        /\ Done(r)
        /\ execStatus[r] = "skipped"

\* C35: when recreation fails after the old container was removed, a
\* container of the target name is present when the run has ended.
C35_ContainerPresentAfterFailure ==
    \A r \in runs :
        (Done(r) /\ "removeContainer" \in calls[r] \ threw[r]
         /\ recreateResult[r] = "false")
            => container.exists

\* C36: in any interleaving of two runs, the identity a run resolves after
\* its pull is the newly pulled one, and a run that ends success has
\* resolved, hence promoted, the new image.
C36_ResolvesNewIdentity ==
    \A r \in runs :
        /\ newImageId[r] # NoImage => newImageId[r] = NewImage
        /\ (execStatus[r] = "success" /\ "Re-tagging approved image" \in executionLog[r])
              => newImageId[r] = NewImage

\* C37: a compose-path run that ended failed without calling
\* updateStackService leaves the image reference on the pre-run image.
C37_FailedComposeLeavesTag ==
    \A r \in runs :
        (Done(r) /\ path[r] = "compose" /\ execStatus[r] = "failed"
         /\ "updateStackService" \notin calls[r])
            => tag = preRunImage[r]

\* Positions a run reaches only through an exception.
ErrorPcs ==
    {"sa_scanerr", "w_sa_scanfail", "sa_pullerr", "co_scanerr", "w_co_scanfail",
     "co_err", "n_co_err", "catch", "n_catch"}

\* C38: when a save of a scan record or the lookup of the current image's
\* cached scan throws and nothing else does, the run is not sent to an error
\* handler and does not end failed, the gate returns a verdict, and the
\* verdict is the policy's on the summaries obtained: the new image's, and
\* the current image's unless its lookup failed, in which case the current
\* image is not scanned either.
C38_StoreFailureKeepsVerdict ==
    \A r \in runs :
        (StoreFailed(r) /\ threw[r] \subseteq StoreCalls) =>
            /\ pc[r] \notin ErrorPcs
            /\ execStatus[r] # "failed"
            /\ pc[r] \notin GatePcs => scanOutcome[r] # "none"
            /\ scanOutcome[r] # "none" =>
                  \E new \in scanSummary[r] :
                     scanOutcome[r] =
                        IF shouldBlockUpdate(vulnerabilityCriteria[r], new,
                                             currentScanSummary[r])
                        THEN "blocked" ELSE "allowed"
            /\ "getCombinedScanForImage" \in threw[r] =>
                  /\ "scanImage(current)" \notin calls[r]
                  /\ currentScanSummary[r] = {}

\* A run whose lookup of the cached scan threw has ended success, after a
\* new-image scan with findings.
C38_Witness ==
    \E r \in runs :
        /\ "getCombinedScanForImage" \in threw[r]
        /\ threw[r] \subseteq StoreCalls
        /\ Done(r)
        /\ execStatus[r] = "success"
        /\ \E new \in scanSummary[r] : TotalVulns(new) > 0

\* C39: updateStackContainer never throws.  It returns false without calling
\* updateStackService when the compose file is not resolved or has no
\* content, false when the apply reports failure or a call throws, and true
\* only when updateStackService reported success.
C39_StackUpdateReturnsBoolean ==
    /\ stackCall.threw # {} => stackCall.returned = {FALSE}
    /\ stackCall.phase = "returned" =>
          /\ stackCall.returned \in {{TRUE}, {FALSE}}
          /\ \A c \in stackCall.composeResult :
                (~c.success \/ c.content # "text")
                   => stackCall.applied = {} /\ stackCall.returned = {FALSE}
          /\ stackCall.result = {FALSE} => stackCall.returned = {FALSE}
          /\ stackCall.returned = {TRUE} <=> stackCall.result = {TRUE}
    /\ stackCall.applied # {} =>
          /\ \E c \in stackCall.composeResult : c.success /\ c.content = "text"
          /\ \A a \in stackCall.applied :
                /\ a.stackName = stackCall.stackName
                /\ a.serviceName = stackCall.serviceName

\* A call returned false on a resolved compose file with empty content.
C39_Witness ==
    /\ stackCall.phase = "returned"
    /\ stackCall.returned = {FALSE}
    /\ stackCall.applied = {}
    /\ \E c \in stackCall.composeResult : c.success /\ c.content = "empty"

====
